---- MODULE Spec2Model ----
(***************************************************************************)
(* FlexiSched scheduling core: the slot-grid builders, the section         *)
(* planners, the constraint assigners and the student allocators of        *)
(* src/ai_engine, as state machines.  Times are minutes since midnight.    *)
(***************************************************************************)
EXTENDS Integers, Sequences, FiniteSets, TLC

VARIABLES
    \* ---- grid builders ----
    builder,        \* which grid builder runs: "config" | "unified" | "comprehensive"
    config,         \* the admin configuration handed to the builder
    day_index,      \* position of the `for day in working_days` loop
    current_time,   \* the walk's cursor
    slot_index,     \* slot_index / slot_counter-1 of the current day
    slots,          \* the slots emitted so far
    grid_pc,        \* "idle" | "walk" | "day_end" | "done" | "error"
    \* ---- planners, assigners and allocators ----
    program,        \* which entry point runs (see Programs)
    request,        \* the request handed to it
    time_slots,     \* the slot list the assigner works on
    sections,       \* the sections planned, then solved, then filled
    schedule,       \* the schedule entries extracted from the solver
    status,         \* CP-SAT's status: "NONE" before the solve
    allocations,    \* per student (in list order) the set of [course_id, section_id]
    alloc_pos,      \* allocation steps taken so far
    loop,           \* the locals of the loop an allocator stands in
    result,         \* the value returned to the caller
    pc              \* where the entry point stands

grid_vars == <<builder, config, day_index, current_time, slot_index, slots, grid_pc>>
run_vars == <<program, request, time_slots, sections, schedule, status,
              allocations, alloc_pos, loop, result, pc>>

vars == <<builder, config, day_index, current_time, slot_index, slots, grid_pc,
          program, request, time_slots, sections, schedule, status,
          allocations, alloc_pos, loop, result, pc>>

-----------------------------------------------------------------------------
(* Bounds of the model and constants of the program *)

MaxDays == 2
\* a walk that does not advance is followed for this many slots at one cursor
MaxStalledSlots == 2

MinutesPerDay == 1440
MiddayBoundary == 780
UnifiedLabelCount == 10
ConfigLabelCount == 8

DayNames == <<"Monday", "Tuesday", "Wednesday", "Thursday", "Friday", "Saturday", "Sunday">>

\* day[:3]
Day3(day) ==
    CASE day = "Monday" -> "Mon" [] day = "Tuesday" -> "Tue"
      [] day = "Wednesday" -> "Wed" [] day = "Thursday" -> "Thu"
      [] day = "Friday" -> "Fri" [] day = "Saturday" -> "Sat"
      [] day = "Sunday" -> "Sun"

Min(S) == CHOOSE x \in S : \A y \in S : x <= y

-----------------------------------------------------------------------------
(* Grid builder inputs *)

LunchBreak == [type |-> "lunch", start_time |-> 780, end_time |-> 840,
               duration |-> 60, is_active |-> TRUE]
MorningBreak == [type |-> "morning", start_time |-> 630, end_time |-> 645,
                 duration |-> 15, is_active |-> TRUE]
EveningBreakOff == [type |-> "evening", start_time |-> 900, end_time |-> 915,
                    duration |-> 15, is_active |-> FALSE]

BreakLists == { <<>>, <<LunchBreak>>, <<MorningBreak, LunchBreak>>,
                <<LunchBreak, EveningBreakOff>> }
StartTimes == {510, 540}
EndTimes == {1020}
SlotDurations == {50, 60}
GraceTimes == {0, 5, 10}

GridConfigs ==
    [college_start_time : StartTimes, college_end_time : EndTimes,
     slot_duration : SlotDurations, grace_time : GraceTimes,
     breaks : BreakLists,
     working_days : {SubSeq(DayNames, 1, n) : n \in 1..MaxDays}]

\* Walks whose slots have no length. Only the two datetime walks take the slot
\* length as a number; BaseTimetableConfig.slot_length is an enumeration.
ZeroLengthConfigs ==
    [college_start_time : StartTimes, college_end_time : EndTimes,
     slot_duration : {0}, grace_time : GraceTimes,
     breaks : BreakLists,
     working_days : {SubSeq(DayNames, 1, n) : n \in 1..MaxDays}]

\* A configuration the specification calls valid: a non-empty window, positive
\* slot length and grace time, breaks of positive length that do not overlap.
ValidConfig(cfg) ==
    /\ cfg.college_start_time < cfg.college_end_time
    /\ cfg.slot_duration > 0
    /\ cfg.grace_time > 0
    /\ \A i \in 1..Len(cfg.breaks) :
          /\ cfg.breaks[i].start_time < cfg.breaks[i].end_time
          /\ \A j \in 1..Len(cfg.breaks) :
                i # j => \/ cfg.breaks[i].end_time <= cfg.breaks[j].start_time
                         \/ cfg.breaks[j].end_time <= cfg.breaks[i].start_time

-----------------------------------------------------------------------------
(* Time arithmetic *)

\* datetime.time(): the time of day of a datetime of today (or a later day)
TimeOf(t) == t % MinutesPerDay

\* TimetableConfigManager._add_minutes_to_time: wraps at midnight
AddMinutesToTime(time_obj, minutes) == (time_obj + minutes) % MinutesPerDay

\* TimetableConfigManager._time_diff_minutes
TimeDiffMinutes(start_time, end_time) == end_time - start_time

\* the end of a break of generate_comprehensive_slots: start + duration, as a time
BreakEndTime(break_info) == TimeOf(break_info.start_time + break_info.duration)

\* a walk: the loop variables of one grid builder
Walk(d, c, i, s, p) == [day |-> d, cur |-> c, idx |-> i, slots |-> s, pc |-> p]

-----------------------------------------------------------------------------
(* UnifiedTimetableGenerator._generate_time_slots *)

UnifiedIsBreakCursorOnly(breaks, cur, slot_end) ==
    \E i \in 1..Len(breaks) :
        TimeOf(cur) >= breaks[i].start_time /\ TimeOf(cur) < breaks[i].end_time

\* the overlap test of the candidate [current_time, slot_end) against the breaks
UnifiedIsBreak(breaks, cur, slot_end) ==
    \E i \in 1..Len(breaks) :
        TimeOf(cur) < breaks[i].end_time /\ TimeOf(slot_end) > breaks[i].start_time

\* "Skip break times": the first break holding the cursor moves it to its end
UnifiedSkipBreaks(breaks, cur) ==
    LET hit == {i \in 1..Len(breaks) :
                   TimeOf(cur) >= breaks[i].start_time /\ TimeOf(cur) < breaks[i].end_time}
    IN IF hit = {} THEN cur ELSE breaks[Min(hit)].end_time

\* "Move to next time slot", then "Skip break times"
UnifiedNextCursorSkipsGraceOnly(cfg, cur, slot_end) ==
    UnifiedSkipBreaks(cfg.breaks, cur + cfg.grace_time)

UnifiedNextCursor(cfg, cur, slot_end) ==
    UnifiedSkipBreaks(cfg.breaks, slot_end + cfg.grace_time)

UnifiedSlotId(idx) == <<(idx % UnifiedLabelCount) + 1, (idx \div UnifiedLabelCount) + 1>>

\* one iteration of the while loop
UnifiedIteration(cfg, w) ==
    LET slot_end == w.cur + cfg.slot_duration
        emit == /\ ~UnifiedIsBreak(cfg.breaks, w.cur, slot_end)
                /\ TimeOf(slot_end) <= cfg.college_end_time
        slot == [slot_id |-> UnifiedSlotId(w.idx), day |-> cfg.working_days[w.day],
                 start_time |-> TimeOf(w.cur), end_time |-> TimeOf(slot_end),
                 duration |-> cfg.slot_duration, is_break |-> FALSE]
    IN Walk(w.day,
            UnifiedNextCursor(cfg, w.cur, slot_end),
            IF emit THEN w.idx + 1 ELSE w.idx,
            IF emit THEN Append(w.slots, slot) ELSE w.slots,
            "walk")

-----------------------------------------------------------------------------
(* generate_comprehensive_slots (api_server.py) *)

ComprehensiveIsBreak(breaks, cur, slot_end) ==
    \E i \in 1..Len(breaks) :
        TimeOf(cur) < BreakEndTime(breaks[i]) /\ TimeOf(slot_end) > breaks[i].start_time

ComprehensiveSkipBreaks(breaks, cur) ==
    LET hit == {i \in 1..Len(breaks) :
                   TimeOf(cur) >= breaks[i].start_time /\ TimeOf(cur) < BreakEndTime(breaks[i])}
    IN IF hit = {} THEN cur ELSE BreakEndTime(breaks[Min(hit)])

ComprehensiveSlotId(day, cur, slot_counter) ==
    <<Day3(day), IF TimeOf(cur) < MiddayBoundary THEN "A" ELSE "B", slot_counter>>

ComprehensiveIteration(cfg, w) ==
    LET slot_end == w.cur + cfg.slot_duration
        slot_block_minutes == cfg.slot_duration + cfg.grace_time
        emit == /\ ~ComprehensiveIsBreak(cfg.breaks, w.cur, slot_end)
                /\ TimeOf(slot_end) <= cfg.college_end_time
        slot == [slot_id |-> ComprehensiveSlotId(cfg.working_days[w.day], w.cur, w.idx + 1),
                 day |-> cfg.working_days[w.day],
                 start_time |-> TimeOf(w.cur), end_time |-> TimeOf(slot_end),
                 duration |-> cfg.slot_duration, is_break |-> FALSE]
    IN Walk(w.day,
            ComprehensiveSkipBreaks(cfg.breaks, w.cur + slot_block_minutes),
            IF emit THEN w.idx + 1 ELSE w.idx,
            IF emit THEN Append(w.slots, slot) ELSE w.slots,
            "walk")

-----------------------------------------------------------------------------
(* TimetableConfigManager.generate_timetable_grid *)

\* _is_break_time: the cursor lies in an active break
IsBreakTime(cur, breaks) ==
    \E i \in 1..Len(breaks) :
        breaks[i].is_active /\ breaks[i].start_time <= cur /\ cur < breaks[i].end_time

\* the first active break holding the cursor
BreakAt(cur, breaks) ==
    breaks[Min({i \in 1..Len(breaks) :
        breaks[i].is_active /\ breaks[i].start_time <= cur /\ cur < breaks[i].end_time})]

\* _get_break_end_time
GetBreakEndTime(cur, breaks) ==
    IF IsBreakTime(cur, breaks) THEN BreakAt(cur, breaks).end_time ELSE cur

\* _get_period_number
GetPeriodNumber(cur) == IF cur < MiddayBoundary THEN 1 ELSE 2

ConfigIteration(cfg, w) ==
    IF IsBreakTime(w.cur, cfg.breaks)
    THEN LET break_end_time == GetBreakEndTime(w.cur, cfg.breaks)
             break_slot == [slot_id |-> <<"BREAK", BreakAt(w.cur, cfg.breaks).type,
                                          Day3(cfg.working_days[w.day])>>,
                            day |-> cfg.working_days[w.day],
                            start_time |-> w.cur, end_time |-> break_end_time,
                            duration |-> TimeDiffMinutes(w.cur, break_end_time),
                            is_break |-> TRUE]
         IN Walk(w.day, break_end_time, w.idx, Append(w.slots, break_slot), "walk")
    ELSE LET end_time == AddMinutesToTime(w.cur, cfg.slot_duration)
             teaching_slot == [slot_id |-> <<w.idx + 1, GetPeriodNumber(w.cur)>>,
                               day |-> cfg.working_days[w.day],
                               start_time |-> w.cur, end_time |-> end_time,
                               duration |-> cfg.slot_duration, is_break |-> FALSE]
         IN IF end_time > cfg.college_end_time
            THEN Walk(w.day, w.cur, w.idx, w.slots, "day_end")      \* break
            ELSE IF w.idx >= ConfigLabelCount
            THEN Walk(w.day, w.cur, w.idx, w.slots, "error")        \* IndexError
            ELSE Walk(w.day, AddMinutesToTime(end_time, cfg.grace_time),
                      w.idx + 1, Append(w.slots, teaching_slot), "walk")

-----------------------------------------------------------------------------
(* The day loop shared by the three builders *)

\* the while condition: datetimes in the two datetime walks, times in the third
InDay(cfg, w) == w.pc = "walk" /\ w.cur < cfg.college_end_time

\* the end of one day's while loop: the next working day, or the return
NextDayOf(cfg, w) ==
    IF w.day < Len(cfg.working_days)
    THEN Walk(w.day + 1, cfg.college_start_time, 0, w.slots, "walk")
    ELSE Walk(w.day, w.cur, w.idx, w.slots, "done")

IterationOf(b, cfg, w) ==
    CASE b = "unified" -> UnifiedIteration(cfg, w)
      [] b = "comprehensive" -> ComprehensiveIteration(cfg, w)
      [] b = "config" -> ConfigIteration(cfg, w)

StartWalk(cfg) ==
    IF Len(cfg.working_days) = 0 THEN Walk(0, 0, 0, <<>>, "done")
    ELSE Walk(1, cfg.college_start_time, 0, <<>>, "walk")

\* the slots of the current day that start at the cursor
SlotsAtCursor(cfg, w) ==
    Cardinality({i \in 1..Len(w.slots) :
                    /\ w.slots[i].day = cfg.working_days[w.day]
                    /\ w.slots[i].start_time = TimeOf(w.cur)})

\* the while loop has no iteration limit; a cursor that stands still is
\* followed until MaxStalledSlots slots were emitted at it
WithinStallBound(cfg, w, next) ==
    next.cur > w.cur \/ SlotsAtCursor(cfg, w) < MaxStalledSlots

CurrentWalk == Walk(day_index, current_time, slot_index, slots, grid_pc)

SetWalk(w) ==
    /\ day_index' = w.day
    /\ current_time' = w.cur
    /\ slot_index' = w.idx
    /\ slots' = w.slots
    /\ grid_pc' = w.pc

\* no planner, assigner or allocator runs
RunIdle ==
    /\ program = "none" /\ request = <<>> /\ time_slots = <<>> /\ sections = <<>>
    /\ schedule = <<>> /\ status = "NONE" /\ allocations = <<>> /\ alloc_pos = 0
    /\ loop = <<>> /\ result = <<>> /\ pc = "idle"

GridInit ==
    /\ RunIdle
    /\ builder \in {"config", "unified", "comprehensive"}
    /\ \/ config \in GridConfigs
       \/ config \in ZeroLengthConfigs /\ builder # "config"
    /\ day_index = StartWalk(config).day
    /\ current_time = StartWalk(config).cur
    /\ slot_index = 0
    /\ slots = <<>>
    /\ grid_pc = StartWalk(config).pc

UnifiedStep ==
    /\ builder = "unified"
    /\ InDay(config, CurrentWalk)
    /\ WithinStallBound(config, CurrentWalk, UnifiedIteration(config, CurrentWalk))
    /\ SetWalk(UnifiedIteration(config, CurrentWalk))
    /\ UNCHANGED <<builder, config>>
    /\ UNCHANGED run_vars

ComprehensiveStep ==
    /\ builder = "comprehensive"
    /\ InDay(config, CurrentWalk)
    /\ WithinStallBound(config, CurrentWalk, ComprehensiveIteration(config, CurrentWalk))
    /\ SetWalk(ComprehensiveIteration(config, CurrentWalk))
    /\ UNCHANGED <<builder, config>>
    /\ UNCHANGED run_vars

ConfigStep ==
    /\ builder = "config"
    /\ InDay(config, CurrentWalk)
    /\ SetWalk(ConfigIteration(config, CurrentWalk))
    /\ UNCHANGED <<builder, config>>
    /\ UNCHANGED run_vars

NextDay ==
    /\ grid_pc \in {"walk", "day_end"}
    /\ ~InDay(config, CurrentWalk)
    /\ SetWalk(NextDayOf(config, CurrentWalk))
    /\ UNCHANGED <<builder, config>>
    /\ UNCHANGED run_vars

GridNext == UnifiedStep \/ ComprehensiveStep \/ ConfigStep \/ NextDay

SpecGrid == GridInit /\ [][GridNext]_vars

-----------------------------------------------------------------------------
(* Properties of the grid builders *)

\* the half-open intervals [s1, e1) and [s2, e2) intersect
Intersects(s1, e1, s2, e2) == s1 < e2 /\ s2 < e1

TeachingSlots == {i \in 1..Len(slots) : ~slots[i].is_break}

\* the end-to-end scenario of the specification: 09:00, 60-minute slots,
\* 10 minutes grace, lunch 13:00-14:00
ScenarioGrid ==
    /\ config.college_start_time = 540 /\ config.slot_duration = 60
    /\ config.grace_time = 10 /\ config.breaks = <<LunchBreak>>

\* C7: no teaching slot emitted by TimetableConfigManager.generate_timetable_grid
\* overlaps an active break interval.
C7_ConfigSlotsAvoidBreaks ==
    (builder = "config" /\ ValidConfig(config)) =>
        \A i \in TeachingSlots : \A b \in 1..Len(config.breaks) :
            config.breaks[b].is_active =>
                ~Intersects(slots[i].start_time, slots[i].end_time,
                            config.breaks[b].start_time, config.breaks[b].end_time)

-----------------------------------------------------------------------------
(* Helpers shared by the planners, assigners and allocators *)

Max(a, b) == IF a >= b THEN a ELSE b

RECURSIVE SumFn(_)
SumFn(f) ==
    IF DOMAIN f = {} THEN 0
    ELSE LET x == CHOOSE x \in DOMAIN f : TRUE
         IN f[x] + SumFn([y \in DOMAIN f \ {x} |-> f[y]])

RECURSIVE FlattenSeq(_)
FlattenSeq(ss) == IF ss = <<>> THEN <<>> ELSE Head(ss) \o FlattenSeq(Tail(ss))

Range(seq) == {seq[i] : i \in 1..Len(seq)}

\* the first position of seq whose element satisfies the test, 0 when none does
FirstIndex(seq, Test(_)) ==
    LET hit == {i \in 1..Len(seq) : Test(seq[i])}
    IN IF hit = {} THEN 0 ELSE Min(hit)

\* the sequences that take their i-th element from choices[i]
RECURSIVE Product(_)
Product(choices) ==
    IF choices = <<>> THEN {<<>>}
    ELSE {<<c>> \o rest : c \in Head(choices), rest \in Product(Tail(choices))}

\* math.ceil(a / b) for a >= 0, b > 0
MathCeil(a, b) == IF a % b = 0 THEN a \div b ELSE (a \div b) + 1

\* int(total_students * fraction): the fraction is carried in percent
IntOfShare(total_students, percent) == (total_students * percent) \div 100

\* run a grid builder to its return: the slots, or <<>> with an error raised
RECURSIVE RunWalk(_, _, _)
RunWalk(b, cfg, w) ==
    IF w.pc \in {"done", "error"} THEN w
    ELSE IF InDay(cfg, w) THEN RunWalk(b, cfg, IterationOf(b, cfg, w))
    ELSE RunWalk(b, cfg, NextDayOf(cfg, w))

-----------------------------------------------------------------------------
(* Requests *)

MaxStudents == 3

Course(id, type, th, lab, tcap, lcap, pct, exp) ==
    [course_id |-> id, course_type |-> type, credits |-> th + lab,
     theory_hours |-> th, lab_hours |-> lab,
     max_theory_capacity |-> tcap, max_lab_capacity |-> lcap,
     demand_percent |-> pct, required_expertise |-> exp,
     is_compulsory |-> (type # "elective")]

Faculty(id, exp, hours) == [faculty_id |-> id, expertise |-> exp, max_hours_per_week |-> hours]

Room(id, cap, type) == [room_id |-> id, capacity |-> cap, room_type |-> type]

CourseLists ==
    { <<Course("DSA", "core", 3, 0, 2, 2, 100, {})>>,
      <<Course("DSA", "core", 3, 0, 2, 2, 100, {"cs"}),
        Course("DM", "core", 2, 0, 3, 2, 100, {})>>,
      <<Course("PROG", "core", 2, 2, 3, 3, 100, {}),
        Course("AI", "elective", 3, 0, 2, 2, 50, {"cs"})>> }

FacultyList == <<Faculty("F1", {"cs"}, 1), Faculty("F2", {"math"}, 20)>>
RoomList == <<Room("R1", 3, "classroom"), Room("R2", 3, "lab")>>

\* the window of the requests: two teaching slots a day
RequestConfigs ==
    [college_start_time : {540}, college_end_time : {680},
     slot_duration : {60}, grace_time : {10}, breaks : {<<>>},
     working_days : {SubSeq(DayNames, 1, n) : n \in 1..MaxDays}]

StudentId(i) == <<"STU", i>>

\* UnifiedTimetableRequest: student_ids defaults to one id per student
UnifiedRequests ==
    { [config |-> cfg, courses |-> cs, faculty |-> FacultyList, rooms |-> RoomList,
       total_students |-> n, student_ids |-> [i \in 1..n |-> StudentId(i)]] :
      cfg \in RequestConfigs, cs \in CourseLists, n \in 0..MaxStudents }

-----------------------------------------------------------------------------
(* UnifiedTimetableGenerator: _process_courses and _calculate_sections *)

\* _process_courses: the enrollment estimate of a course
EstimatedStudents(course, total_students) ==
    IF course.course_type = "elective"
    THEN IntOfShare(total_students, course.demand_percent)
    ELSE total_students

UnifiedSectionsNeeded(estimated_students, capacity) ==
    Max(1, (estimated_students + capacity - 1) \div capacity)

UnifiedTheorySections(course, total_students) ==
    IF course.theory_hours > 0
    THEN UnifiedSectionsNeeded(EstimatedStudents(course, total_students),
                               course.max_theory_capacity)
    ELSE 0

UnifiedLabSections(course, total_students) ==
    IF course.lab_hours > 0
    THEN UnifiedSectionsNeeded(EstimatedStudents(course, total_students),
                               course.max_lab_capacity)
    ELSE 0

UnifiedSection(course, kind, i) ==
    [section_id |-> <<course.course_id, IF kind = "theory" THEN "T" ELSE "L", i>>,
     course_id |-> course.course_id, section_type |-> kind,
     max_students |-> IF kind = "theory" THEN course.max_theory_capacity
                      ELSE course.max_lab_capacity,
     assigned_faculty |-> "", assigned_room |-> "",
     assigned_slots |-> <<>>, enrolled_students |-> <<>>]

CalculateSections(courses, total_students) ==
    FlattenSeq([c \in 1..Len(courses) |->
        [i \in 1..UnifiedTheorySections(courses[c], total_students) |->
            UnifiedSection(courses[c], "theory", i)]
        \o [i \in 1..UnifiedLabSections(courses[c], total_students) |->
            UnifiedSection(courses[c], "lab", i)]])

CourseOf(courses, course_id) ==
    courses[Min({c \in 1..Len(courses) : courses[c].course_id = course_id})]

-----------------------------------------------------------------------------
(* UnifiedTimetableGenerator._solve_timetable_constraints *)

\* the keys of the `assignments` dictionary: one Boolean variable each.  Slots
\* are keyed by slot_id, so slots of two days with one id share a variable.
UnifiedVariables(secs, ts, rooms, fac) ==
    {[section |-> secs[s].section_id, slot |-> ts[t].slot_id,
      room |-> rooms[r].room_id, faculty |-> fac[f].faculty_id] :
        s \in 1..Len(secs), t \in 1..Len(ts), r \in 1..Len(rooms), f \in 1..Len(fac)}

\* Constraint 1: the sum runs over the slot list, once per list element
UnifiedAssignedOnce(X, secs, ts) ==
    \A s \in 1..Len(secs) :
        SumFn([t \in 1..Len(ts) |->
            Cardinality({k \in X : k.section = secs[s].section_id
                                   /\ k.slot = ts[t].slot_id})]) = 1

UnifiedRoomConflictsIgnored(X, ts, rooms) == TRUE

\* Constraint 2: one section per room per slot
UnifiedNoRoomConflicts(X, ts, rooms) ==
    \A t \in 1..Len(ts), r \in 1..Len(rooms) :
        Cardinality({k \in X : k.slot = ts[t].slot_id /\ k.room = rooms[r].room_id}) <= 1

\* Constraint 3: one section per faculty per slot
UnifiedNoFacultyConflicts(X, ts, fac) ==
    \A t \in 1..Len(ts), f \in 1..Len(fac) :
        Cardinality({k \in X : k.slot = ts[t].slot_id
                               /\ k.faculty = fac[f].faculty_id}) <= 1

UnifiedForcedZeroNever(k, secs, rooms, fac, courses) == FALSE

\* Constraints 4, 5 and 6: variables forced to 0
UnifiedForcedZero(k, secs, rooms, fac, courses) ==
    LET section == secs[Min({s \in 1..Len(secs) : secs[s].section_id = k.section})]
        room == rooms[Min({r \in 1..Len(rooms) : rooms[r].room_id = k.room})]
        faculty == fac[Min({f \in 1..Len(fac) : fac[f].faculty_id = k.faculty})]
        course == CourseOf(courses, section.course_id)
    IN \/ room.capacity < section.max_students
       \/ /\ course.required_expertise # {}
          /\ course.required_expertise \cap faculty.expertise = {}
       \/ section.section_type = "lab" /\ room.room_type # "lab"

UnifiedSatisfies(X, secs, ts, rooms, fac, courses) ==
    /\ UnifiedAssignedOnce(X, secs, ts)
    /\ UnifiedNoRoomConflicts(X, ts, rooms)
    /\ UnifiedNoFacultyConflicts(X, ts, fac)
    /\ \A k \in X : ~UnifiedForcedZero(k, secs, rooms, fac, courses)

\* Every satisfying valuation sets at most one variable per section (each
\* variable of a section has a coefficient of at least 1 in constraint 1) and
\* none that constraints 4 to 6 force to 0, so the search enumerates those
\* valuations and keeps the satisfying ones.
UnifiedSolutions(secs, ts, rooms, fac, courses) ==
    LET V == UnifiedVariables(secs, ts, rooms, fac)
        choices == [s \in 1..Len(secs) |->
                       {{}} \cup {{k} : k \in {v \in V :
                            /\ v.section = secs[s].section_id
                            /\ ~UnifiedForcedZero(v, secs, rooms, fac, courses)}}]
    IN {X \in {UNION {f[s] : s \in 1..Len(secs)} : f \in Product(choices)} :
            UnifiedSatisfies(X, secs, ts, rooms, fac, courses)}

\* the extraction loops: section, slot (list order), room, faculty
UnifiedExtract(X, secs, ts, rooms, fac) ==
    LET nt == Len(ts)
        nr == Len(rooms)
        nf == Len(fac)
        S(k) == ((k - 1) \div (nt * nr * nf)) + 1
        T(k) == (((k - 1) \div (nr * nf)) % nt) + 1
        R(k) == (((k - 1) \div nf) % nr) + 1
        F(k) == ((k - 1) % nf) + 1
        On(k) == [section |-> secs[S(k)].section_id, slot |-> ts[T(k)].slot_id,
                  room |-> rooms[R(k)].room_id, faculty |-> fac[F(k)].faculty_id] \in X
        hits == SelectSeq([k \in 1..(Len(secs) * nt * nr * nf) |-> k], On)
    IN [i \in 1..Len(hits) |->
          [section_id |-> secs[S(hits[i])].section_id,
           course_id |-> secs[S(hits[i])].course_id,
           faculty_id |-> fac[F(hits[i])].faculty_id,
           room_id |-> rooms[R(hits[i])].room_id,
           slot_id |-> ts[T(hits[i])].slot_id,
           day |-> ts[T(hits[i])].day,
           start_time |-> ts[T(hits[i])].start_time,
           end_time |-> ts[T(hits[i])].end_time,
           duration |-> ts[T(hits[i])].duration,
           section_type |-> secs[S(hits[i])].section_type,
           max_students |-> secs[S(hits[i])].max_students]]

\* "Update section with assignment": the last entry of the section wins
UnifiedAssign(secs, sched) ==
    [s \in 1..Len(secs) |->
        LET mine == {i \in 1..Len(sched) : sched[i].section_id = secs[s].section_id}
        IN IF mine = {} THEN secs[s]
           ELSE LET e == sched[CHOOSE i \in mine : \A j \in mine : j <= i]
                IN [secs[s] EXCEPT !.assigned_faculty = e.faculty_id,
                                   !.assigned_room = e.room_id,
                                   !.assigned_slots = <<e.slot_id>>]]

-----------------------------------------------------------------------------
(* UnifiedTimetableGenerator._detect_conflicts *)

UnifiedConflictsOf(sched, kind, keys) ==
    LET Repeats(i) == \E j \in 1..(i - 1) : keys[j] = keys[i]
        hits == SelectSeq([i \in 1..Len(sched) |-> i], Repeats)
    IN [n \in 1..Len(hits) |->
          [type |-> kind, severity |-> "high",
           affected_items |->
              <<sched[Min({j \in 1..Len(sched) : keys[j] = keys[hits[n]]})],
                sched[hits[n]]>>]]

UnifiedDetectConflicts(sched) ==
    LET FacultyKey(item) == <<item.faculty_id, item.day, item.start_time>>
        RoomKey(item) == <<item.room_id, item.day, item.start_time>>
    IN UnifiedConflictsOf(sched, "faculty_conflict",
                          [i \in 1..Len(sched) |-> FacultyKey(sched[i])])
       \o UnifiedConflictsOf(sched, "room_conflict",
                             [i \in 1..Len(sched) |-> RoomKey(sched[i])])

-----------------------------------------------------------------------------
(* UnifiedTimetableGenerator.generate_complete_timetable, step by step *)

\* no grid builder runs on its own
GridIdle ==
    /\ builder = "none" /\ config = <<>> /\ day_index = 0 /\ current_time = 0
    /\ slot_index = 0 /\ slots = <<>> /\ grid_pc = "idle"

StartRun(prog, req) ==
    /\ program = prog /\ request = req
    /\ time_slots = <<>> /\ sections = <<>> /\ schedule = <<>> /\ status = "NONE"
    /\ allocations = <<>> /\ alloc_pos = 0 /\ loop = <<>> /\ result = <<>>
    /\ pc = "start"

\* Steps 1 to 3: the slot grid, the processed inputs, the sections
UnifiedPlan ==
    /\ program = "unified" /\ pc = "start"
    /\ time_slots' = RunWalk("unified", request.config, StartWalk(request.config)).slots
    /\ sections' = CalculateSections(request.courses, request.total_students)
    /\ pc' = "solve"
    /\ UNCHANGED <<loop, program, request, schedule, status, allocations, alloc_pos, result>>
    /\ UNCHANGED grid_vars

\* the except branch of generate_complete_timetable
UnifiedFailure ==
    [success |-> FALSE, timetable_schedule |-> <<>>,
     conflicts |-> <<[type |-> "generation_error", severity |-> "high"]>>]

\* Step 4: the CP-SAT search ends with a valuation, with a proof that none
\* exists, or on its time limit with neither.  The extraction tests
\* `var and ...` on a solver variable; OR-Tools releases differ on the truth
\* value of a variable (it is true, or the test raises NotImplementedError),
\* and the repository pins no release.
UnifiedSolve ==
    /\ program = "unified" /\ pc = "solve"
    /\ LET sols == UnifiedSolutions(sections, time_slots, request.rooms,
                                    request.faculty, request.courses)
           Go == /\ allocations' = [i \in 1..Len(request.student_ids) |-> {}]
                 /\ pc' = "allocate"
                 /\ UNCHANGED result
       IN \/ \E X \in sols :
                LET sched == UnifiedExtract(X, sections, time_slots,
                                            request.rooms, request.faculty)
                IN /\ status' = "OPTIMAL"
                   /\ schedule' = sched
                   /\ sections' = UnifiedAssign(sections, sched)
                   /\ Go
          \/ /\ sols # {}
             /\ status' = "OPTIMAL"
             /\ result' = UnifiedFailure
             /\ pc' = "done"
             /\ UNCHANGED <<schedule, sections, allocations>>
          \/ /\ sols = {}
             /\ status' = "INFEASIBLE"
             /\ UNCHANGED <<schedule, sections>>
             /\ Go
          \/ /\ status' = "UNKNOWN"
             /\ UNCHANGED <<schedule, sections>>
             /\ Go
    /\ UNCHANGED <<loop, program, request, time_slots, alloc_pos>>
    /\ UNCHANGED grid_vars

\* the keys of course_sections, in insertion order
CourseOrder(secs) ==
    LET First(i) == \A j \in 1..(i - 1) : secs[j].course_id # secs[i].course_id
        hits == SelectSeq([i \in 1..Len(secs) |-> i], First)
    IN [n \in 1..Len(hits) |-> secs[hits[n]].course_id]

\* "Find section with available capacity"
UnifiedHasRoom(section) == Len(section.enrolled_students) < section.max_students

\* the section of the course a student is put in: 0 when all are full
UnifiedPickSection(secs, course_id) ==
    LET Fits(i) == secs[i].course_id = course_id /\ UnifiedHasRoom(secs[i])
        hit == {i \in 1..Len(secs) : Fits(i)}
    IN IF hit = {} THEN 0 ELSE Min(hit)

\* Step 5, one (student, course) pair of _allocate_students at a time
UnifiedAllocate ==
    /\ program = "unified" /\ pc = "allocate"
    /\ LET order == CourseOrder(sections)
           m == Len(order)
       IN /\ alloc_pos < Len(request.student_ids) * m
          /\ LET si == (alloc_pos \div m) + 1
                 course_id == order[(alloc_pos % m) + 1]
                 course == CourseOf(request.courses, course_id)
                 estimated == EstimatedStudents(course, request.total_students)
                 pick == UnifiedPickSection(sections, course_id)
                 Place ==
                    IF pick = 0 THEN UNCHANGED <<sections, allocations>>
                    ELSE /\ sections' = [sections EXCEPT ![pick].enrolled_students =
                                            Append(@, request.student_ids[si])]
                         /\ allocations' = [allocations EXCEPT ![si] = @ \cup
                                {[course_id |-> course_id,
                                  section_id |-> sections[pick].section_id]}]
             IN \/ /\ course.course_type = "elective"
                   \* random.random() > estimated_students / len(student_ids)
                   /\ estimated < Len(request.student_ids)
                   /\ UNCHANGED <<sections, allocations>>
                \/ Place
    /\ alloc_pos' = alloc_pos + 1
    /\ UNCHANGED <<loop, program, request, time_slots, schedule, status, result, pc>>
    /\ UNCHANGED grid_vars

\* Steps 6 and 7: the conflicts and the result
UnifiedFinish ==
    /\ program = "unified" /\ pc = "allocate"
    /\ alloc_pos >= Len(request.student_ids) * Len(CourseOrder(sections))
    /\ LET conflicts == UnifiedDetectConflicts(schedule)
       IN result' = [success |-> Len(conflicts) = 0, timetable_schedule |-> schedule,
                     conflicts |-> conflicts]
    /\ pc' = "done"
    /\ UNCHANGED <<loop, program, request, time_slots, sections, schedule, status,
                   allocations, alloc_pos>>
    /\ UNCHANGED grid_vars

-----------------------------------------------------------------------------
(* api_server.py: calculate_comprehensive_sections and
   generate_comprehensive_timetable *)

\* the subsets of S with k elements
RECURSIVE KSubsets(_, _)
KSubsets(S, k) ==
    IF k = 0 THEN {{}}
    ELSE {T \cup {x} : T \in KSubsets(S, k - 1), x \in S} \ KSubsets(S, k - 1)

ApiCourse(code, th, lab, is_core) ==
    [course_code |-> code, credits |-> th + lab, th |-> th, lab |-> lab, is_core |-> is_core]

ApiRoom(id, cap, tags) == [room_id |-> id, capacity |-> cap, tags |-> tags]

ApiFaculty(id, expertise, hours) ==
    [faculty_id |-> id, expertise |-> expertise, max_hours_per_week |-> hours]

ApiCourseLists ==
    { <<ApiCourse("CS", 2, 0, TRUE)>>,
      <<ApiCourse("CS", 3, 0, TRUE)>>,
      <<ApiCourse("CS", 1, 0, TRUE), ApiCourse("MA", 1, 0, FALSE)>>,
      <<ApiCourse("PH", 1, 1, TRUE)>> }

ApiRoomList == <<ApiRoom("R1", 4, {"theory"}), ApiRoom("R2", 4, {"theory", "lab"})>>

ApiFacultyLists ==
    { <<ApiFaculty("F1", {}, 18), ApiFaculty("F2", {"CS"}, 1)>>,
      <<ApiFaculty("F2", {"CS"}, 1)>> }

ApiRequests ==
    { [admin_config |-> cfg, courses |-> cs, rooms |-> ApiRoomList, faculty |-> fs,
       student_strength |-> n] :
      cfg \in RequestConfigs, cs \in ApiCourseLists, fs \in ApiFacultyLists,
      n \in 0..MaxStudents }

\* sum(capacities) / len(rooms) is a float: the operators below keep it as
\* the fraction total / count
ApiRoomTotal(rooms) == SumFn([r \in 1..Len(rooms) |-> rooms[r].capacity])

\* int(student_strength * 0.3)
ApiExpectedStudents(course, student_strength) ==
    IF course.is_core THEN student_strength ELSE (student_strength * 3) \div 10

\* max(1, math.ceil(expected_students / avg_room_capacity))
ApiTheorySectionsNeeded(expected, rooms) ==
    Max(1, MathCeil(expected * Len(rooms), ApiRoomTotal(rooms)))

\* avg_room_capacity // 2
ApiLabCapacity(rooms) == ApiRoomTotal(rooms) \div (2 * Len(rooms))

ApiLabSectionsNeeded(expected, rooms) ==
    Max(1, MathCeil(expected, ApiLabCapacity(rooms)))

ApiSection(course, kind, i, cap, expected) ==
    [section_id |-> <<course.course_code, IF kind = "theory" THEN "T" ELSE "L", i>>,
     course |-> course.course_code,
     capacity |-> IF cap <= expected THEN cap ELSE expected,
     type |-> kind,
     required_meetings |-> IF kind = "theory" THEN course.th ELSE course.lab,
     faculty |-> "", slots |-> <<>>, room |-> ""]

\* rooms is not empty here; with a lab capacity of 0 the division raises
CalculateComprehensiveSections(courses, student_strength, rooms) ==
    FlattenSeq([c \in 1..Len(courses) |->
        LET expected == ApiExpectedStudents(courses[c], student_strength)
        IN (IF courses[c].th > 0
            THEN [i \in 1..ApiTheorySectionsNeeded(expected, rooms) |->
                    ApiSection(courses[c], "theory", i,
                               ApiRoomTotal(rooms) \div Len(rooms), expected)]
            ELSE <<>>)
           \o (IF courses[c].lab > 0
               THEN [i \in 1..ApiLabSectionsNeeded(expected, rooms) |->
                       ApiSection(courses[c], "lab", i, ApiLabCapacity(rooms), expected)]
               ELSE <<>>)])

ApiRaisesInSections(courses, rooms) ==
    \E c \in 1..Len(courses) : courses[c].lab > 0 /\ ApiLabCapacity(rooms) = 0

\* compat_rooms and compat_faculty of a section, as index lists in list order
ApiCompatRooms(section, rooms) ==
    LET Fits(r) == /\ rooms[r].capacity >= section.capacity
                   /\ \/ section.type = "lab" /\ "lab" \in rooms[r].tags
                      \/ section.type = "theory" /\ "theory" \in rooms[r].tags
    IN SelectSeq([r \in 1..Len(rooms) |-> r], Fits)

ApiCompatFaculty(section, fac) ==
    LET Fits(f) == section.course \in fac[f].expertise \/ fac[f].expertise = {}
    IN SelectSeq([f \in 1..Len(fac) |-> f], Fits)

\* the x variables of a section: slot id, compatible room, compatible faculty
ApiVariables(section, ts, rooms, fac) ==
    {[section |-> section.section_id, slot |-> ts[t].slot_id,
      room |-> rooms[r].room_id, faculty |-> fac[f].faculty_id] :
        t \in 1..Len(ts), r \in Range(ApiCompatRooms(section, rooms)),
        f \in Range(ApiCompatFaculty(section, fac))}

\* A valuation is the set X of x variables set to 1 and, per section, the
\* faculty id whose y variable is 1 ("" for a section without y variables).

\* Constraint 1: sum(assignments) == required_meetings, if there are variables
ApiMeetsRequired(X, y, secs, ts, rooms, fac) ==
    \A s \in 1..Len(secs) :
        ApiVariables(secs[s], ts, rooms, fac) # {} =>
            Cardinality({k \in X : k.section = secs[s].section_id})
                = secs[s].required_meetings

\* Constraint 2: exactly one y variable of the section is 1, if there are any
ApiOneFaculty(X, y, secs, ts, rooms, fac) ==
    \A s \in 1..Len(secs) :
        LET ids == {fac[f].faculty_id : f \in Range(ApiCompatFaculty(secs[s], fac))}
        IN ids # {} => y[s] \in ids

\* Constraint 3: the x variables of a faculty sum to required_meetings * y
ApiLinked(X, y, secs, ts, rooms, fac) ==
    \A s \in 1..Len(secs) : \A f \in Range(ApiCompatFaculty(secs[s], fac)) :
        LET mine == {k \in ApiVariables(secs[s], ts, rooms, fac) :
                        k.faculty = fac[f].faculty_id}
        IN mine # {} =>
            Cardinality(X \cap mine) =
                IF y[s] = fac[f].faculty_id THEN secs[s].required_meetings ELSE 0

\* Constraint 4: no double booking of a room
ApiNoRoomConflicts(X, ts, rooms) ==
    \A t \in 1..Len(ts), r \in 1..Len(rooms) :
        Cardinality({k \in X : k.slot = ts[t].slot_id /\ k.room = rooms[r].room_id}) <= 1

\* Constraint 5: no double booking of a faculty member
ApiNoFacultyConflicts(X, ts, fac) ==
    \A t \in 1..Len(ts), f \in 1..Len(fac) :
        Cardinality({k \in X : k.slot = ts[t].slot_id
                               /\ k.faculty = fac[f].faculty_id}) <= 1

ApiSatisfies(X, y, secs, ts, rooms, fac) ==
    /\ ApiMeetsRequired(X, y, secs, ts, rooms, fac)
    /\ ApiOneFaculty(X, y, secs, ts, rooms, fac)
    /\ ApiLinked(X, y, secs, ts, rooms, fac)
    /\ ApiNoRoomConflicts(X, ts, rooms)
    /\ ApiNoFacultyConflicts(X, ts, fac)

\* Constraints 1 to 3 leave a section the x variables of one faculty member,
\* required_meetings of them, or none at all: the search enumerates these
\* choices per section and keeps the valuations that satisfy the model.
ApiChoices(section, ts, rooms, fac) ==
    LET V == ApiVariables(section, ts, rooms, fac)
        ids == {fac[f].faculty_id : f \in Range(ApiCompatFaculty(section, fac))}
    IN IF ids = {} THEN {[x |-> {}, y |-> ""]}
       ELSE {[x |-> T, y |-> id] :
                id \in ids,
                T \in IF V = {} THEN {{}}
                      ELSE KSubsets(V, section.required_meetings)}

ApiSolutions(secs, ts, rooms, fac) ==
    LET choices == [s \in 1..Len(secs) |-> ApiChoices(secs[s], ts, rooms, fac)]
    IN {v \in {[x |-> UNION {f[s].x : s \in 1..Len(secs)},
                y |-> [s \in 1..Len(secs) |-> f[s].y]] : f \in Product(choices)} :
            ApiSatisfies(v.x, v.y, secs, ts, rooms, fac)}

\* the extraction loops: section, slot, room and faculty, in list order
ApiExtract(X, secs, ts, rooms, fac) ==
    LET nt == Len(ts)
        nr == Len(rooms)
        nf == Len(fac)
        S(k) == ((k - 1) \div (nt * nr * nf)) + 1
        T(k) == (((k - 1) \div (nr * nf)) % nt) + 1
        R(k) == (((k - 1) \div nf) % nr) + 1
        F(k) == ((k - 1) % nf) + 1
        On(k) == [section |-> secs[S(k)].section_id, slot |-> ts[T(k)].slot_id,
                  room |-> rooms[R(k)].room_id, faculty |-> fac[F(k)].faculty_id] \in X
        hits == SelectSeq([k \in 1..(Len(secs) * nt * nr * nf) |-> k], On)
    IN [i \in 1..Len(hits) |->
          [section_id |-> secs[S(hits[i])].section_id,
           course |-> secs[S(hits[i])].course,
           slot_id |-> ts[T(hits[i])].slot_id,
           day |-> ts[T(hits[i])].day,
           start |-> ts[T(hits[i])].start_time,
           end |-> ts[T(hits[i])].end_time,
           room |-> rooms[R(hits[i])].room_id,
           faculty |-> fac[F(hits[i])].faculty_id,
           type |-> secs[S(hits[i])].type,
           capacity |-> secs[S(hits[i])].capacity]]

\* "Falling back to simple round-robin assignment": the meetings of the
\* sections in order, one slot each, until the slots run out
ApiFallback(secs, ts, rooms, fac) ==
    LET meetings == FlattenSeq([s \in 1..Len(secs) |->
                        [m \in 1..secs[s].required_meetings |-> s]])
        n == IF Len(meetings) <= Len(ts) THEN Len(meetings) ELSE Len(ts)
    IN [k \in 1..n |->
          LET s == meetings[k]
          IN [section_id |-> secs[s].section_id,
              course |-> secs[s].course,
              slot_id |-> ts[k].slot_id,
              day |-> ts[k].day,
              start |-> ts[k].start_time,
              end |-> ts[k].end_time,
              room |-> rooms[((s - 1) % Len(rooms)) + 1].room_id,
              faculty |-> fac[((s - 1) % Len(fac)) + 1].faculty_id,
              type |-> secs[s].type,
              capacity |-> secs[s].capacity]]

\* the except branch of generate_comprehensive_timetable
ApiFailure == [success |-> FALSE, timetable |-> <<>>, conflicts |-> <<[type |-> "error"]>>]

\* Steps 1 to 3: the slots and the sections
ApiPlan ==
    /\ program = "api" /\ pc = "start"
    /\ time_slots' = RunWalk("comprehensive", request.admin_config,
                             StartWalk(request.admin_config)).slots
    /\ IF request.rooms # <<>> /\ ApiRaisesInSections(request.courses, request.rooms)
       THEN /\ result' = ApiFailure
            /\ pc' = "done"
            /\ UNCHANGED sections
       ELSE /\ sections' = CalculateComprehensiveSections(request.courses,
                                request.student_strength, request.rooms)
            /\ pc' = "solve"
            /\ UNCHANGED result
    /\ UNCHANGED <<loop, program, request, schedule, status, allocations, alloc_pos>>
    /\ UNCHANGED grid_vars

\* Step 4: the CP-SAT search and the extraction, or the fallback
ApiSolve ==
    /\ program = "api" /\ pc = "solve"
    /\ IF request.rooms # <<>> /\ request.faculty # <<>> /\ time_slots # <<>>
       THEN LET sols == ApiSolutions(sections, time_slots, request.rooms, request.faculty)
                fallback == ApiFallback(sections, time_slots, request.rooms,
                                        request.faculty)
            IN \/ \E v \in sols :
                    /\ status' = "OPTIMAL"
                    /\ schedule' = ApiExtract(v.x, sections, time_slots,
                                              request.rooms, request.faculty)
               \/ /\ sols = {}
                  /\ status' = "INFEASIBLE"
                  /\ schedule' = fallback
               \/ /\ status' = "UNKNOWN"
                  /\ schedule' = fallback
       ELSE UNCHANGED <<status, schedule>>
    /\ pc' = "finish"
    /\ UNCHANGED <<loop, program, request, time_slots, sections, allocations,
                   alloc_pos, result>>
    /\ UNCHANGED grid_vars

\* Step 5: the response
ApiFinish ==
    /\ program = "api" /\ pc = "finish"
    /\ result' = [success |-> TRUE, timetable |-> schedule, conflicts |-> <<>>]
    /\ pc' = "done"
    /\ UNCHANGED <<loop, program, request, time_slots, sections, schedule, status,
                   allocations, alloc_pos>>
    /\ UNCHANGED grid_vars

ApiNext == ApiPlan \/ ApiSolve \/ ApiFinish

UnifiedNext == UnifiedPlan \/ UnifiedSolve \/ UnifiedAllocate \/ UnifiedFinish

-----------------------------------------------------------------------------
(* TimetableConstraintSolver (constraint_solver.py) *)

SolverCourse(id, credits) == [id |-> id, credits |-> credits]

SolverFaculty(id, hours) == [id |-> id, max_hours_per_week |-> hours]

SolverCourseLists ==
    { <<SolverCourse("C1", 1)>>, <<SolverCourse("C1", 2)>>,
      <<SolverCourse("C1", 1), SolverCourse("C2", 1)>>,
      <<SolverCourse("C1", 2), SolverCourse("C2", 1)>> }

SolverFacultyLists ==
    { <<>>, <<SolverFaculty("F1", 20)>>,
      <<SolverFaculty("F1", 20), SolverFaculty("F2", 2)>> }

SolverRoomLists == { <<[id |-> "R1"]>>, <<[id |-> "R1"], [id |-> "R2"]>> }

\* the caller's time slots: a grid's teaching slots as TimeSlot records
SolverTimeSlots(cfg) ==
    LET grid == RunWalk("unified", cfg, StartWalk(cfg)).slots
    IN [i \in 1..Len(grid) |->
          [day |-> grid[i].day, start_time |-> grid[i].start_time,
           end_time |-> grid[i].end_time, duration |-> grid[i].duration]]

SolverRequests ==
    { [courses |-> cs, faculty |-> fs, rooms |-> rs, time_slots |-> SolverTimeSlots(cfg)] :
      cs \in SolverCourseLists, fs \in SolverFacultyLists, rs \in SolverRoomLists,
      cfg \in RequestConfigs }

\* _create_variables: assign_{course}_{faculty}_{room}_{i}
SolverVariables(courses, fac, rooms, ts) ==
    {[course |-> courses[c].id, faculty |-> fac[f].id, room |-> rooms[r].id, i |-> i] :
        c \in 1..Len(courses), f \in 1..Len(fac), r \in 1..Len(rooms), i \in 1..Len(ts)}

\* Constraint 1: sum(assignments) == course.credits
SolverSlotsNeeded(X, courses) ==
    \A c \in 1..Len(courses) :
        Cardinality({k \in X : k.course = courses[c].id}) = courses[c].credits

\* Constraint 2: no double booking of rooms
SolverNoRoomDoubleBooking(X, rooms, ts) ==
    \A r \in 1..Len(rooms), i \in 1..Len(ts) :
        Cardinality({k \in X : k.room = rooms[r].id /\ k.i = i}) <= 1

\* Constraint 3: a faculty member teaches one course at a time
SolverOneCourseAtATime(X, fac, ts) ==
    \A f \in 1..Len(fac), i \in 1..Len(ts) :
        Cardinality({k \in X : k.faculty = fac[f].id /\ k.i = i}) <= 1

\* _add_faculty_constraints: every variable name of the faculty member adds
\* the member's variables of all slot indexes again, so each variable enters
\* total_hours once per slot index
SolverWorkload(X, faculty_id, ts) ==
    LET mine == {k \in X : k.faculty = faculty_id}
    IN Len(ts) * SumFn([k \in mine |-> ts[k.i].duration \div 60])

SolverWorkloadFits(X, fac, rooms, ts, courses) ==
    \A f \in 1..Len(fac) :
        {k \in SolverVariables(courses, fac, rooms, ts) : k.faculty = fac[f].id} # {} =>
            SolverWorkload(X, fac[f].id, ts) <= fac[f].max_hours_per_week

SolverSatisfies(X, courses, fac, rooms, ts) ==
    /\ SolverSlotsNeeded(X, courses)
    /\ SolverNoRoomDoubleBooking(X, rooms, ts)
    /\ SolverOneCourseAtATime(X, fac, ts)
    /\ SolverWorkloadFits(X, fac, rooms, ts, courses)

\* constraint 1 fixes the number of variables of a course that are 1
SolverSolutions(courses, fac, rooms, ts) ==
    LET V(c) == {k \in SolverVariables(courses, fac, rooms, ts) : k.course = courses[c].id}
        choices == [c \in 1..Len(courses) |-> KSubsets(V(c), courses[c].credits)]
    IN {X \in {UNION {f[c] : c \in 1..Len(courses)} : f \in Product(choices)} :
            SolverSatisfies(X, courses, fac, rooms, ts)}

\* _extract_solution: course, faculty, room and slot index, in that order
SolverExtract(X, courses, fac, rooms, ts) ==
    LET nf == Len(fac)
        nr == Len(rooms)
        nt == Len(ts)
        C(k) == ((k - 1) \div (nf * nr * nt)) + 1
        F(k) == (((k - 1) \div (nr * nt)) % nf) + 1
        R(k) == (((k - 1) \div nt) % nr) + 1
        T(k) == ((k - 1) % nt) + 1
        On(k) == [course |-> courses[C(k)].id, faculty |-> fac[F(k)].id,
                  room |-> rooms[R(k)].id, i |-> T(k)] \in X
        hits == SelectSeq([k \in 1..(Len(courses) * nf * nr * nt) |-> k], On)
    IN [n \in 1..Len(hits) |->
          [course_id |-> courses[C(hits[n])].id,
           faculty_id |-> fac[F(hits[n])].id,
           room_id |-> rooms[R(hits[n])].id,
           day |-> ts[T(hits[n])].day,
           start_time |-> ts[T(hits[n])].start_time,
           end_time |-> ts[T(hits[n])].end_time,
           duration |-> ts[T(hits[n])].duration]]

SolverConflictsOf(sched, kind, keys) ==
    LET Repeats(i) == \E j \in 1..(i - 1) : keys[j] = keys[i]
        hits == SelectSeq([i \in 1..Len(sched) |-> i], Repeats)
    IN [n \in 1..Len(hits) |->
          [type |-> kind, severity |-> "high",
           affected_slots |->
              <<sched[Min({j \in 1..Len(sched) : keys[j] = keys[hits[n]]})],
                sched[hits[n]]>>]]

\* TimetableConstraintSolver._detect_conflicts
SolverDetectConflicts(sched) ==
    LET FacultyKey(slot) == <<slot.faculty_id, slot.day, slot.start_time>>
        RoomKey(slot) == <<slot.room_id, slot.day, slot.start_time>>
    IN SolverConflictsOf(sched, "faculty_clash",
                         [i \in 1..Len(sched) |-> FacultyKey(sched[i])])
       \o SolverConflictsOf(sched, "room_clash",
                            [i \in 1..Len(sched) |-> RoomKey(sched[i])])

\* both `return OptimizationResult(success=False, conflicts=[], ...)`
SolverFailure == [success |-> FALSE, timetable_slots |-> <<>>, conflicts |-> <<>>]

\* The model is built.  _set_objectives divides a sum of solver variables with
\* `//` when there is a faculty member; OR-Tools' linear expressions do not
\* document that operator, so the call raises or it yields an expression.
SolverBuild ==
    /\ program = "solver" /\ pc = "start"
    /\ time_slots' = request.time_slots
    /\ \/ /\ pc' = "solve"
          /\ UNCHANGED result
       \/ /\ request.faculty # <<>>
          /\ result' = SolverFailure
          /\ pc' = "done"
    /\ UNCHANGED <<loop, program, request, sections, schedule, status, allocations,
                   alloc_pos>>
    /\ UNCHANGED grid_vars

\* solver.Solve has no time limit here: it ends OPTIMAL or INFEASIBLE
SolverSolve ==
    /\ program = "solver" /\ pc = "solve"
    /\ LET sols == SolverSolutions(request.courses, request.faculty, request.rooms,
                                   time_slots)
       IN \/ \E X \in sols :
                LET timetable_slots == SolverExtract(X, request.courses, request.faculty,
                                                     request.rooms, time_slots)
                IN /\ status' = "OPTIMAL"
                   /\ schedule' = timetable_slots
                   /\ result' = [success |-> TRUE, timetable_slots |-> timetable_slots,
                                 conflicts |-> SolverDetectConflicts(timetable_slots)]
          \/ /\ sols = {}
             /\ status' = "INFEASIBLE"
             /\ result' = SolverFailure
             /\ UNCHANGED schedule
    /\ pc' = "done"
    /\ UNCHANGED <<loop, program, request, time_slots, sections, allocations, alloc_pos>>
    /\ UNCHANGED grid_vars

SolverNext == SolverBuild \/ SolverSolve

-----------------------------------------------------------------------------
(* ComprehensiveSectioningEngine (comprehensive_sectioning.py) *)

CourseDefinition(id, type, th, lab, tcap, lcap, pct, continuous) ==
    [course_id |-> id, course_type |-> type, total_credits |-> th + lab,
     theory_hours |-> th, lab_hours |-> lab,
     max_theory_capacity |-> tcap, max_lab_capacity |-> lcap,
     requires_continuous_lab |-> continuous, demand_percent |-> pct]

GridSlot(label, period, duration) ==
    [slot_id |-> <<label, period>>, duration |-> duration, is_break |-> FALSE]

\* the timetable grids handed to the engine: teaching slots of an hour, lab
\* slots of three hours, and a two-day grid whose slot ids repeat
EngineGrids ==
    { <<GridSlot("A", 1, 60), GridSlot("B", 1, 60), GridSlot("C", 2, 60),
        GridSlot("L", 1, 180)>>,
      <<GridSlot("A", 1, 60), GridSlot("B", 1, 60), GridSlot("A", 1, 60),
        GridSlot("B", 1, 60)>>,
      <<GridSlot("A", 1, 60), GridSlot("B", 1, 60), GridSlot("C", 2, 60),
        GridSlot("D", 2, 60), GridSlot("L", 1, 180), GridSlot("M", 2, 180)>> }

EngineCourseLists ==
    { <<CourseDefinition("DSA", "core", 3, 2, 2, 2, 100, TRUE)>>,
      <<CourseDefinition("OS", "core", 2, 4, 3, 3, 100, TRUE)>>,
      <<CourseDefinition("AI", "elective", 2, 0, 2, 2, 50, FALSE),
        CourseDefinition("DM", "core", 2, 3, 3, 2, 100, FALSE)>> }

EngineRequests ==
    { [timetable_grid |-> g, courses |-> cs, total_students |-> n,
       student_ids |-> [i \in 1..n |-> StudentId(i)]] :
      g \in EngineGrids, cs \in EngineCourseLists, n \in 0..MaxStudents }

\* _initialize_slot_pools
AvailableLabSlots(grid) ==
    LET Lab(slot) == ~slot.is_break /\ slot.duration >= 180
        pool == SelectSeq(grid, Lab)
    IN [i \in 1..Len(pool) |-> pool[i].slot_id]

AvailableTheorySlots(grid) ==
    LET Theory(slot) == ~slot.is_break /\ slot.duration < 180 /\ slot.duration >= 50
        pool == SelectSeq(grid, Theory)
    IN [i \in 1..Len(pool) |-> pool[i].slot_id]

EngineEstimatedStudents(course, total_students) ==
    IF course.course_type = "elective"
    THEN IntOfShare(total_students, course.demand_percent)
    ELSE total_students

EngineSectionsNeededAtLeastOne(estimated_students, capacity) ==
    Max(1, MathCeil(estimated_students, capacity))

\* math.ceil(estimated_students / capacity)
EngineSectionsNeeded(estimated_students, capacity) ==
    MathCeil(estimated_students, capacity)

\* calculate_required_sections: <<theory_sections, lab_sections>>
CalculateRequiredSections(course, total_students) ==
    LET estimated_students == EngineEstimatedStudents(course, total_students)
    IN <<IF course.theory_hours > 0
         THEN EngineSectionsNeeded(estimated_students, course.max_theory_capacity)
         ELSE 0,
         IF course.lab_hours > 0
         THEN EngineSectionsNeeded(estimated_students, course.max_lab_capacity)
         ELSE 0>>

\* sorted(courses, key=(0 if core else 1, -total_credits)): a stable sort
EngineSortedCourses(courses) ==
    LET Key(i) == <<IF courses[i].course_type = "core" THEN 0 ELSE 1,
                    0 - courses[i].total_credits>>
        Before(i, j) == \/ Key(i)[1] < Key(j)[1]
                        \/ Key(i)[1] = Key(j)[1] /\ Key(i)[2] < Key(j)[2]
                        \/ Key(i) = Key(j) /\ i < j
        Rank(i) == Cardinality({j \in 1..Len(courses) : Before(j, i)}) + 1
    IN [p \in 1..Len(courses) |-> courses[CHOOSE i \in 1..Len(courses) : Rank(i) = p]]

\* _find_continuous_slots: the first free slots of the pool
FindContinuousSlots(slots_needed, available_slots, used_slots) ==
    LET Free(slot) == slot \notin used_slots
        free == SelectSeq(available_slots, Free)
    IN SubSeq(free, 1, IF Len(free) < slots_needed THEN Len(free) ELSE slots_needed)

\* the alternation of _find_distributed_slots over the two day patterns
RECURSIVE AlternatePatterns(_, _, _, _, _)
AlternatePatterns(allocated, pattern_idx, slots_needed, available_slots, used_slots) ==
    IF ~(Len(allocated) < slots_needed /\ pattern_idx < 2 * 3) THEN allocated
    ELSE LET Ending(slot) == slot[2] = (IF pattern_idx % 2 = 0 THEN 1 ELSE 2)
             pattern_slots == SelectSeq(available_slots, Ending)
             Free(slot) == slot \notin used_slots /\ slot \notin Range(allocated)
             hit == FirstIndex(pattern_slots, Free)
         IN AlternatePatterns(
                IF hit = 0 THEN allocated ELSE Append(allocated, pattern_slots[hit]),
                pattern_idx + 1, slots_needed, available_slots, used_slots)

\* "If still need more slots, take any available"
RECURSIVE TakeAnyAvailable(_, _, _, _, _)
TakeAnyAvailable(allocated, i, slots_needed, available_slots, used_slots) ==
    IF i > Len(available_slots) THEN allocated
    ELSE TakeAnyAvailable(
            IF /\ available_slots[i] \notin used_slots
               /\ available_slots[i] \notin Range(allocated)
               /\ Len(allocated) < slots_needed
            THEN Append(allocated, available_slots[i]) ELSE allocated,
            i + 1, slots_needed, available_slots, used_slots)

FindDistributedSlots(slots_needed, available_slots, used_slots) ==
    TakeAnyAvailable(
        AlternatePatterns(<<>>, 0, slots_needed, available_slots, used_slots),
        1, slots_needed, available_slots, used_slots)

\* _allocate_slots
AllocateSlots(slots_needed, available_slots, used_slots, continuous) ==
    IF continuous /\ slots_needed > 1
    THEN FindContinuousSlots(slots_needed, available_slots, used_slots)
    ELSE FindDistributedSlots(slots_needed, available_slots, used_slots)

\* the sections generate_all_sections tries to create, in loop order
EngineJobs(courses, total_students) ==
    LET sorted_courses == EngineSortedCourses(courses)
    IN FlattenSeq([c \in 1..Len(sorted_courses) |->
          LET counts == CalculateRequiredSections(sorted_courses[c], total_students)
          IN [i \in 1..counts[1] |->
                [course |-> sorted_courses[c], session_type |-> "theory", i |-> i]]
             \o [i \in 1..counts[2] |->
                [course |-> sorted_courses[c], session_type |-> "lab", i |-> i]]])

EngineSlotsNeeded(course, session_type) ==
    IF session_type = "theory" THEN course.theory_hours
    ELSE MathCeil(course.lab_hours, 2)

SectionDefinition(job, assigned_slots) ==
    [section_id |-> <<job.course.course_id,
                      IF job.session_type = "theory" THEN "TH_SEC" ELSE "LAB_SEC", job.i>>,
     course_id |-> job.course.course_id,
     course_type |-> job.course.course_type,
     session_type |-> job.session_type,
     max_capacity |-> IF job.session_type = "theory"
                      THEN job.course.max_theory_capacity
                      ELSE job.course.max_lab_capacity,
     enrolled_students |-> <<>>,
     assigned_slots |-> assigned_slots,
     is_continuous |-> IF job.session_type = "theory" THEN FALSE
                       ELSE job.course.requires_continuous_lab]

\* a theory section needs all its slots, a lab section at least one
EngineMaterialises(job, assigned_slots) ==
    IF job.session_type = "theory"
    THEN Len(assigned_slots) = EngineSlotsNeeded(job.course, "theory")
    ELSE Len(assigned_slots) >= 1

RECURSIVE GenerateFrom(_, _, _, _, _)
GenerateFrom(jobs, k, all_sections, used_slots, grid) ==
    IF k > Len(jobs) THEN all_sections
    ELSE LET job == jobs[k]
             assigned_slots ==
                IF job.session_type = "theory"
                THEN AllocateSlots(EngineSlotsNeeded(job.course, "theory"),
                                   AvailableTheorySlots(grid), used_slots, FALSE)
                ELSE AllocateSlots(EngineSlotsNeeded(job.course, "lab"),
                                   AvailableLabSlots(grid), used_slots,
                                   job.course.requires_continuous_lab)
         IN IF EngineMaterialises(job, assigned_slots)
            THEN GenerateFrom(jobs, k + 1,
                              Append(all_sections, SectionDefinition(job, assigned_slots)),
                              used_slots \cup Range(assigned_slots), grid)
            ELSE GenerateFrom(jobs, k + 1, all_sections, used_slots, grid)

GenerateAllSections(courses, total_students, grid) ==
    GenerateFrom(EngineJobs(courses, total_students), 1, <<>>, {}, grid)

\* Step 1 of optimize_sectioning
EnginePlan ==
    /\ program = "engine" /\ pc = "start"
    /\ sections' = GenerateAllSections(request.courses, request.total_students,
                                       request.timetable_grid)
    /\ allocations' = [i \in 1..Len(request.student_ids) |->
                          [allocated_sections |-> {}, occupied_slots |-> {}]]
    /\ pc' = "allocate"
    /\ UNCHANGED <<loop, program, request, time_slots, schedule, status, alloc_pos,
                   result>>
    /\ UNCHANGED grid_vars

\* "Check slot conflicts"
EngineSlotsFree(section, occupied_slots) ==
    Range(section.assigned_slots) \cap occupied_slots = {}

\* the first section of the course with capacity and no slot conflict, or 0
EnginePickSection(secs, course_id, occupied_slots) ==
    LET hit == {i \in 1..Len(secs) :
                   /\ secs[i].course_id = course_id
                   /\ ~(Len(secs[i].enrolled_students) >= secs[i].max_capacity)
                   /\ EngineSlotsFree(secs[i], occupied_slots)}
    IN IF hit = {} THEN 0 ELSE Min(hit)

\* Step 2, one (student, course) pair of allocate_students_to_sections at a time
EngineAllocate ==
    /\ program = "engine" /\ pc = "allocate"
    /\ LET order == CourseOrder(sections)
           m == Len(order)
       IN /\ alloc_pos < Len(request.student_ids) * m
          /\ LET si == (alloc_pos \div m) + 1
                 course_id == order[(alloc_pos % m) + 1]
                 pick == EnginePickSection(sections, course_id,
                                           allocations[si].occupied_slots)
             IN IF pick = 0 THEN UNCHANGED <<sections, allocations>>
                ELSE /\ sections' = [sections EXCEPT ![pick].enrolled_students =
                                        Append(@, request.student_ids[si])]
                     /\ allocations' = [allocations EXCEPT
                            ![si].allocated_sections = @ \cup
                                {[course_id |-> course_id,
                                  section_id |-> sections[pick].section_id]},
                            ![si].occupied_slots = @ \cup
                                Range(sections[pick].assigned_slots)]
    /\ alloc_pos' = alloc_pos + 1
    /\ UNCHANGED <<loop, program, request, time_slots, schedule, status, result, pc>>
    /\ UNCHANGED grid_vars

\* Step 3: utilization and the over-capacity conflicts
EngineConflicts(secs) ==
    LET Over(i) == Len(secs[i].enrolled_students) > secs[i].max_capacity
        hits == SelectSeq([i \in 1..Len(secs) |-> i], Over)
    IN [n \in 1..Len(hits) |->
          [type |-> "over_capacity", section_id |-> secs[hits[n]].section_id,
           enrolled |-> Len(secs[hits[n]].enrolled_students),
           capacity |-> secs[hits[n]].max_capacity]]

EngineFinish ==
    /\ program = "engine" /\ pc = "allocate"
    /\ alloc_pos >= Len(request.student_ids) * Len(CourseOrder(sections))
    /\ result' = [sections |-> sections, student_allocations |-> allocations,
                  section_utilization |->
                      [i \in 1..Len(sections) |-> Len(sections[i].enrolled_students)],
                  conflicts |-> EngineConflicts(sections),
                  total_sections_created |-> Len(sections)]
    /\ pc' = "done"
    /\ UNCHANGED <<loop, program, request, time_slots, sections, schedule, status,
                   allocations, alloc_pos>>
    /\ UNCHANGED grid_vars

EngineNext == EnginePlan \/ EngineAllocate \/ EngineFinish

-----------------------------------------------------------------------------
(* ElectiveAssignmentOptimizer (elective_optimizer.py) *)

MaxIterations == 100

ElectiveSection(elective_id, n, max_students, slot_pattern) ==
    [section_id |-> <<elective_id, "SEC", n>>, elective_id |-> elective_id,
     max_students |-> max_students, slot_pattern |-> slot_pattern]

ElectiveSectionList ==
    <<ElectiveSection("E1", 1, 1, <<<<"A", 1>>>>),
      ElectiveSection("E1", 2, 1, <<<<"B", 1>>>>),
      ElectiveSection("E2", 1, 2, <<<<"C", 2>>>>)>>

PreferenceLists == { <<"E1", "E2">>, <<"E2", "E1">>, <<"E1">> }

\* student 1 has a core class in slot A1; the others have no core schedule
CoreSlots(student_id) == IF student_id = StudentId(1) THEN {<<"A", 1>>} ELSE {}

ElectiveRequests ==
    { [sections |-> ElectiveSectionList,
       preferences |-> [i \in 1..n |-> [student_id |-> StudentId(i),
                                        preferences |-> prefs[i]]]] :
      n \in 1..MaxStudents, prefs \in [1..MaxStudents -> PreferenceLists] }

\* _check_section_feasibility
CheckSectionFeasibility(student_core_slots, section_slots) ==
    student_core_slots \cap Range(section_slots) = {}

\* _build_constraints: per preference, per rank, per section of the elective
BuildConstraints(secs, preferences) ==
    FlattenSeq([p \in 1..Len(preferences) |->
        FlattenSeq([rank \in 1..Len(preferences[p].preferences) |->
            LET Mine(i) == secs[i].elective_id = preferences[p].preferences[rank]
                elective_sections == SelectSeq([i \in 1..Len(secs) |-> i], Mine)
            IN [k \in 1..Len(elective_sections) |->
                  [student_id |-> preferences[p].student_id,
                   section_id |-> secs[elective_sections[k]].section_id,
                   is_feasible |-> CheckSectionFeasibility(
                        CoreSlots(preferences[p].student_id),
                        secs[elective_sections[k]].slot_pattern),
                   preference_rank |-> rank]]])])

\* feasible_constraints.sort(key=(preference_rank, student_id)): a stable sort
FeasibleConstraints(constraints) ==
    LET Feasible(c) == c.is_feasible
        feasible == SelectSeq(constraints, Feasible)
        Before(i, j) ==
            \/ feasible[i].preference_rank < feasible[j].preference_rank
            \/ /\ feasible[i].preference_rank = feasible[j].preference_rank
               /\ feasible[i].student_id[2] < feasible[j].student_id[2]
            \/ /\ feasible[i].preference_rank = feasible[j].preference_rank
               /\ feasible[i].student_id = feasible[j].student_id
               /\ i < j
        Rank(i) == Cardinality({j \in 1..Len(feasible) : Before(j, i)}) + 1
    IN [p \in 1..Len(feasible) |-> feasible[CHOOSE i \in 1..Len(feasible) : Rank(i) = p]]

ElectiveSectionOf(secs, section_id) ==
    secs[Min({i \in 1..Len(secs) : secs[i].section_id = section_id})]

\* the assignments dictionary is a sequence of <<student_id, section_id>> in
\* insertion order
AssignedSection(assignments, student_id) ==
    LET hit == {i \in 1..Len(assignments) : assignments[i][1] = student_id}
    IN IF hit = {} THEN "" ELSE assignments[Min(hit)][2]

\* sum(1 for s in assignments.values() if s == section_id)
EnrolledIn(assignments, section_id) ==
    Cardinality({i \in 1..Len(assignments) : assignments[i][2] = section_id})

\* _get_preference_rank
GetPreferenceRank(student_id, section_id, constraints) ==
    LET hit == {i \in 1..Len(constraints) :
                   /\ constraints[i].student_id = student_id
                   /\ constraints[i].section_id = section_id}
    IN IF hit = {} THEN 999 ELSE constraints[Min(hit)].preference_rank

\* Step 1 and the set-up of _solve_assignment_problem
ElectiveBuild ==
    /\ program = "elective" /\ pc = "start"
    /\ sections' = request.sections
    /\ allocations' = <<>>
    /\ loop' = [constraints |-> BuildConstraints(request.sections, request.preferences),
                section_enrolled |-> [i \in 1..Len(request.sections) |-> 0],
                student_assigned |-> {}]
    /\ pc' = "greedy"
    /\ UNCHANGED <<program, request, time_slots, schedule, status, alloc_pos, result>>
    /\ UNCHANGED grid_vars

ElectiveSectionFullNever(section_enrolled, section_capacity) == FALSE

\* "Skip if section is full"
ElectiveSectionFull(section_enrolled, section_capacity) ==
    section_enrolled >= section_capacity

\* the greedy loop, one feasible constraint at a time
ElectiveGreedy ==
    /\ program = "elective" /\ pc = "greedy"
    /\ LET feasible_constraints == FeasibleConstraints(loop.constraints)
       IN /\ alloc_pos < Len(feasible_constraints)
          /\ LET constraint == feasible_constraints[alloc_pos + 1]
                 s == Min({i \in 1..Len(sections) :
                              sections[i].section_id = constraint.section_id})
                 assigned_section == AssignedSection(allocations, constraint.student_id)
                 skip ==
                    \/ constraint.student_id \in loop.student_assigned
                    \/ ElectiveSectionFull(loop.section_enrolled[s],
                                           sections[s].max_students)
                    \/ /\ assigned_section # ""
                       /\ ElectiveSectionOf(sections, assigned_section).elective_id
                            = sections[s].elective_id
             IN IF skip THEN UNCHANGED <<allocations, loop>>
                ELSE /\ allocations' = Append(allocations,
                            <<constraint.student_id, constraint.section_id>>)
                     /\ loop' = [loop EXCEPT
                            !.section_enrolled[s] = @ + 1,
                            !.student_assigned = @ \cup {constraint.student_id}]
    /\ alloc_pos' = alloc_pos + 1
    /\ UNCHANGED <<program, request, time_slots, sections, schedule, status, result, pc>>
    /\ UNCHANGED grid_vars

\* the greedy loop is over: _improve_assignments starts
ElectiveStartImprove ==
    /\ program = "elective" /\ pc = "greedy"
    /\ alloc_pos >= Len(FeasibleConstraints(loop.constraints))
    /\ loop' = [constraints |-> loop.constraints, improved |-> TRUE, iterations |-> 0,
                items |-> <<>>, pos |-> 1]
    /\ pc' = "improve"
    /\ UNCHANGED <<program, request, time_slots, sections, schedule, status,
                   allocations, alloc_pos, result>>
    /\ UNCHANGED grid_vars

\* the while condition holds: a pass over list(assignments.items()) starts
ElectivePass ==
    /\ program \in {"elective", "improver"} /\ pc = "improve"
    /\ loop.pos > Len(loop.items)
    /\ loop.improved /\ loop.iterations < MaxIterations
    /\ loop' = [loop EXCEPT !.improved = FALSE, !.iterations = @ + 1,
                            !.items = allocations, !.pos = 1]
    /\ UNCHANGED <<program, request, time_slots, sections, schedule, status,
                   allocations, alloc_pos, result, pc>>
    /\ UNCHANGED grid_vars

\* one student of the pass: the first better-ranked feasible section with room
ElectiveImprove ==
    /\ program \in {"elective", "improver"} /\ pc = "improve"
    /\ loop.pos <= Len(loop.items)
    /\ LET student_id == loop.items[loop.pos][1]
           current_section == loop.items[loop.pos][2]
           current_rank == GetPreferenceRank(student_id, current_section,
                                             loop.constraints)
           Target(i) ==
              /\ loop.constraints[i].student_id = student_id
              /\ loop.constraints[i].is_feasible
              /\ loop.constraints[i].preference_rank < current_rank
              /\ ~ElectiveSectionFull(
                    EnrolledIn(allocations, loop.constraints[i].section_id),
                    ElectiveSectionOf(sections,
                                      loop.constraints[i].section_id).max_students)
           hit == {i \in 1..Len(loop.constraints) : Target(i)}
           at == Min({i \in 1..Len(allocations) : allocations[i][1] = student_id})
       IN IF hit = {}
          THEN /\ loop' = [loop EXCEPT !.pos = @ + 1]
               /\ UNCHANGED allocations
          ELSE /\ allocations' = [allocations EXCEPT
                      ![at] = <<student_id, loop.constraints[Min(hit)].section_id>>]
               /\ loop' = [loop EXCEPT !.pos = @ + 1, !.improved = TRUE]
    /\ UNCHANGED <<program, request, time_slots, sections, schedule, status,
                   alloc_pos, result, pc>>
    /\ UNCHANGED grid_vars

\* Step 3: _analyze_results
ElectiveFinish ==
    /\ program \in {"elective", "improver"} /\ pc = "improve"
    /\ loop.pos > Len(loop.items)
    /\ ~(loop.improved /\ loop.iterations < MaxIterations)
    /\ LET unassigned_students ==
              {request.preferences[p].student_id : p \in 1..Len(request.preferences)}
                \ {allocations[i][1] : i \in 1..Len(allocations)}
       IN result' = [success |-> unassigned_students = {},
                     assignments |-> allocations,
                     unassigned_students |-> unassigned_students,
                     section_utilization |->
                        [i \in 1..Len(sections) |->
                            EnrolledIn(allocations, sections[i].section_id)]]
    /\ pc' = "done"
    /\ UNCHANGED <<loop, program, request, time_slots, sections, schedule, status,
                   allocations, alloc_pos>>
    /\ UNCHANGED grid_vars

ElectiveNext ==
    ElectiveBuild \/ ElectiveGreedy \/ ElectiveStartImprove \/ ElectivePass
    \/ ElectiveImprove \/ ElectiveFinish

-----------------------------------------------------------------------------
(* GeneticTimetableSolver (genetic_solver.py).  Every random draw is a
   nondeterministic choice.  Fitness values are floats in the program; here
   they are fixed-point numbers, a thousandth of a point each. *)

StallLimit == 50

\* -float('inf'): below every fitness, which is never negative
NegInf == 0 - 1

GeneticCourse(id, credits, expected_students) ==
    [id |-> id, credits |-> credits, expected_students |-> expected_students]

GeneticRoom(id, capacity) == [id |-> id, capacity |-> capacity]

GeneticCourseLists ==
    { <<>>, <<GeneticCourse("C1", 1, 1)>>, <<GeneticCourse("C1", 2, 3)>> }

GeneticFacultyLists ==
    { <<>>, <<SolverFaculty("F1", 1), SolverFaculty("F2", 20)>> }

GeneticRoomList == <<GeneticRoom("R1", 2)>>

GeneticTimeSlotLists ==
    { <<[day |-> "Monday", start_time |-> 540, end_time |-> 600, duration |-> 60]>>,
      <<[day |-> "Monday", start_time |-> 540, end_time |-> 600, duration |-> 60],
        [day |-> "Monday", start_time |-> 610, end_time |-> 730, duration |-> 120]>> }

\* GeneticTimetableSolver(population_size, generations) and its request; the
\* long runs are those of a population of one
GeneticRequests ==
    { [courses |-> cs, faculty |-> fs, rooms |-> GeneticRoomList, time_slots |-> ts,
       population_size |-> p, generations |-> g] :
      cs \in GeneticCourseLists, fs \in GeneticFacultyLists,
      ts \in GeneticTimeSlotLists, p \in 0..2, g \in {0, 1, 2} }
    \cup
    { [courses |-> cs, faculty |-> <<SolverFaculty("F1", 1), SolverFaculty("F2", 20)>>,
       rooms |-> GeneticRoomList,
       time_slots |-> <<[day |-> "Monday", start_time |-> 540, end_time |-> 600,
                         duration |-> 60]>>,
       population_size |-> 1, generations |-> StallLimit + 3] :
      cs \in GeneticCourseLists }

\* the genes a random assignment draws from: time_slot_idx counts from 1 here
Genes(course_id, req) ==
    { [course_id |-> course_id, faculty_id |-> req.faculty[f].id,
       room_id |-> req.rooms[r].id, time_slot_idx |-> t] :
      f \in 1..Len(req.faculty), r \in 1..Len(req.rooms), t \in 1..Len(req.time_slots) }

\* the course of each position of an individual: `credits` positions a course
GeneLayout(courses) ==
    FlattenSeq([c \in 1..Len(courses) |->
                   [k \in 1..courses[c].credits |-> courses[c].id]])

\* _initialize_population: the individuals a random initialisation can give
Individuals(req) ==
    LET layout == GeneLayout(req.courses)
    IN Product([k \in 1..Len(layout) |-> Genes(layout[k], req)])

\* random.choice of an empty list and random.randint(0, -1) raise
InitializeRaises(req) ==
    /\ req.population_size > 0 /\ GeneLayout(req.courses) # <<>>
    /\ (req.faculty = <<>> \/ req.rooms = <<>> \/ req.time_slots = <<>>)

\* _individual_to_slots
IndividualToSlots(individual, ts) ==
    LET Valid(k) == individual[k].time_slot_idx <= Len(ts)
        hits == SelectSeq([k \in 1..Len(individual) |-> k], Valid)
    IN [n \in 1..Len(hits) |->
          LET g == individual[hits[n]]
          IN [course_id |-> g.course_id, faculty_id |-> g.faculty_id,
              room_id |-> g.room_id,
              day |-> ts[g.time_slot_idx].day,
              start_time |-> ts[g.time_slot_idx].start_time,
              end_time |-> ts[g.time_slot_idx].end_time,
              duration |-> ts[g.time_slot_idx].duration]]

\* the positions of a list whose key an earlier position already holds
RepeatedKeys(keys) == {i \in 1..Len(keys) : \E j \in 1..(i - 1) : keys[j] = keys[i]}

\* the largest r with r * r <= n
RECURSIVE ISqrtBetween(_, _, _)
ISqrtBetween(n, lo, hi) ==
    IF lo >= hi THEN lo
    ELSE LET mid == (lo + hi + 1) \div 2
         IN IF mid * mid <= n THEN ISqrtBetween(n, mid, hi)
            ELSE ISqrtBetween(n, lo, mid - 1)

\* _calculate_conflict_score
ConflictScore(tslots) ==
    LET fkeys == [i \in 1..Len(tslots) |->
                     <<tslots[i].faculty_id, tslots[i].day, tslots[i].start_time>>]
        rkeys == [i \in 1..Len(tslots) |->
                     <<tslots[i].room_id, tslots[i].day, tslots[i].start_time>>]
        conflicts == Cardinality(RepeatedKeys(fkeys)) + Cardinality(RepeatedKeys(rkeys))
        total_slots == Len(tslots)
    IN IF total_slots = 0 THEN 0
       ELSE Max(0, (100000 * (total_slots - conflicts)) \div total_slots)

\* _calculate_faculty_workload
GeneticFacultyWorkload(tslots, fac) ==
    [f \in 1..Len(fac) |->
        SumFn([i \in {j \in 1..Len(tslots) : tslots[j].faculty_id = fac[f].id} |->
                  tslots[i].duration \div 60])]

\* _calculate_workload_balance_score: 100 * (1 - std / mean)
WorkloadBalanceScore(tslots, fac) ==
    LET workload == GeneticFacultyWorkload(tslots, fac)
        n == Len(fac)
        total == SumFn(workload)
        squares == SumFn([f \in 1..n |-> workload[f] * workload[f]])
        spread == n * squares - total * total
        cv == ISqrtBetween(spread * 1000000, 0, 1000 * (spread + 1)) \div total
    IN IF n = 0 \/ total = 0 THEN 100000
       ELSE Max(0, 100000 - 100 * cv)

\* _calculate_utilization_score: the best rate is 0.75
UtilizationScore(tslots, rooms, ts) ==
    LET total_possible_slots == Len(rooms) * Len(ts) * 5
        rate == (1000 * Len(tslots)) \div total_possible_slots
        deviation == IF rate >= 750 THEN rate - 750 ELSE 750 - rate
    IN IF rooms = <<>> \/ ts = <<>> THEN 100000
       ELSE Max(0, 100000 - 100 * deviation)

\* _calculate_constraint_satisfaction_score
ConstraintSatisfactionScore(tslots, req) ==
    LET workload == GeneticFacultyWorkload(tslots, req.faculty)
        over == {f \in 1..Len(req.faculty) :
                    workload[f] > req.faculty[f].max_hours_per_week}
        CourseAt(i) == CHOOSE c \in Range(req.courses) : c.id = tslots[i].course_id
        RoomAt(i) == CHOOSE r \in Range(req.rooms) : r.id = tslots[i].room_id
        crowded == {i \in 1..Len(tslots) :
                       CourseAt(i).expected_students > RoomAt(i).capacity}
    IN Max(0, 100000 - 10000 * Cardinality(over) - 5000 * Cardinality(crowded))

\* _evaluate_fitness: the weights are 0.4, 0.25, 0.2 and 0.15
EvaluateFitness(individual, req) ==
    LET tslots == IndividualToSlots(individual, req.time_slots)
    IN IF individual = <<>> THEN 0
       ELSE (40 * ConflictScore(tslots)
             + 25 * WorkloadBalanceScore(tslots, req.faculty)
             + 20 * UtilizationScore(tslots, req.rooms, req.time_slots)
             + 15 * ConstraintSatisfactionScore(tslots, req)) \div 100

\* np.argmax: the first position of the largest score
ArgMax(scores) ==
    Min({i \in 1..Len(scores) : \A j \in 1..Len(scores) : scores[j] <= scores[i]})

\* "Track best solution": a strictly larger fitness replaces the recorded one
GeneticImprovesNever(score, best_fitness) == FALSE

GeneticImproves(score, best_fitness) == score > best_fitness

\* np.argsort(fitness_scores)[-elite_count:]: the order among equal scores is
\* the sort's choice
EliteIndices(scores, elite_count) ==
    LET n == Len(scores)
    IN { e \in [1..elite_count -> 1..n] :
           /\ \A a, b \in 1..elite_count : a < b =>
                 (e[a] # e[b] /\ scores[e[a]] <= scores[e[b]])
           /\ \A a \in 1..elite_count : \A j \in (1..n) \ Range(e) :
                 scores[j] <= scores[e[a]] }

\* _tournament_selection: the positions that can win a tournament of
\* min(3, len(population)) sampled positions
TournamentWinners(scores) ==
    LET n == Len(scores)
        size == IF n < 3 THEN n ELSE 3
    IN { i \in 1..n : \E sample \in KSubsets(1..n, size) :
            i \in sample /\ \A j \in sample : scores[j] <= scores[i] }

\* _crossover raises in random.randint(1, 0) when the parents have one gene
CrossoverRaises(parent1, parent2) == Len(parent1) = Len(parent2) /\ Len(parent1) = 1

\* _crossover: the pairs of children of a single-point crossover
Crossover(parent1, parent2) ==
    IF Len(parent1) # Len(parent2) \/ Len(parent1) = 0
    THEN {<<parent1, parent2>>}
    ELSE { << SubSeq(parent1, 1, point) \o SubSeq(parent2, point + 1, Len(parent2)),
              SubSeq(parent2, 1, point) \o SubSeq(parent1, point + 1, Len(parent1)) >> :
           point \in 1..(Len(parent1) - 1) }

\* n random re-assignments, each of one position
RECURSIVE MutateTimes(_, _, _)
MutateTimes(individual, n, req) ==
    IF n = 0 THEN {individual}
    ELSE UNION { UNION { { [m EXCEPT ![idx] = g] : g \in Genes(m[idx].course_id, req) } :
                         idx \in 1..Len(m) } :
                 m \in MutateTimes(individual, n - 1, req) }

\* _mutate with mutation_rate 0.1: max(1, int(len * 0.1)) re-assignments
Mutate(individual, req) ==
    IF individual = <<>> THEN {individual}
    ELSE MutateTimes(individual, Max(1, Len(individual) \div 10), req)

\* one pass of "Generate rest of population": the two children appended
Offspring(population, scores, req) ==
    LET parents == {population[i] : i \in TournamentWinners(scores)}
        crossed == UNION { {<<p1, p2>>} \cup Crossover(p1, p2) : p1, p2 \in parents }
    IN UNION { { <<c1, c2>> : c1 \in {pair[1]} \cup Mutate(pair[1], req),
                              c2 \in {pair[2]} \cup Mutate(pair[2], req) } :
               pair \in crossed }

\* the passes of the while loop that fills the new population
OffspringPasses(population_size, elite_count) ==
    IF population_size <= elite_count THEN 0
    ELSE (population_size - elite_count + 1) \div 2

\* the populations the next generation can start from
NextPopulations(population, scores, req) ==
    LET elite_count == Max(1, req.population_size \div 10)
        passes == OffspringPasses(req.population_size, elite_count)
        pairs == Offspring(population, scores, req)
    IN { SubSeq([k \in 1..elite_count |-> population[e[k]]] \o FlattenSeq(rest),
                1, req.population_size) :
         e \in EliteIndices(scores, elite_count),
         rest \in Product([k \in 1..passes |-> pairs]) }

\* a crossover is drawn in some pass and raises
NextPopulationRaises(population, scores, req) ==
    /\ OffspringPasses(req.population_size, Max(1, req.population_size \div 10)) > 0
    /\ \E i, j \in TournamentWinners(scores) :
          CrossoverRaises(population[i], population[j])

\* a detector whose faculty_schedule dict outlived the call that filled it
GeneticDetectConflictsKeepsDict(tslots) ==
    LET Key(slot) == <<slot.faculty_id, slot.day, slot.start_time>>
        kept == IF pc = "done" THEN {Key(schedule[i]) : i \in 1..Len(schedule)} ELSE {}
        Clash(i) == Key(tslots[i]) \in kept
                    \/ \E j \in 1..(i - 1) : Key(tslots[j]) = Key(tslots[i])
        hits == SelectSeq([i \in 1..Len(tslots) |-> i], Clash)
    IN [n \in 1..Len(hits) |->
          [type |-> "faculty_clash", severity |-> "high",
           affected_slots |-> <<tslots[hits[n]], tslots[hits[n]]>>]]

\* GeneticTimetableSolver._detect_conflicts: the faculty loop only
GeneticDetectConflicts(tslots) ==
    SolverConflictsOf(tslots, "faculty_clash",
                      [i \in 1..Len(tslots) |->
                          <<tslots[i].faculty_id, tslots[i].day, tslots[i].start_time>>])

\* the two results without a schedule: the else branch and the except branch
GeneticNoSolution ==
    [success |-> FALSE, timetable_slots |-> <<>>, conflicts |-> <<>>,
     optimization_score |-> 0, warnings |-> <<"No feasible solution found">>]

GeneticError ==
    [success |-> FALSE, timetable_slots |-> <<>>, conflicts |-> <<>>,
     optimization_score |-> 0, warnings |-> <<"Genetic algorithm error">>]

\* "Initialize population".  best_individual is <<>> for None and <<individual>>
\* otherwise; seen_max records the largest fitness any generation evaluated.
GeneticStart ==
    /\ program = "genetic" /\ pc = "start"
    /\ time_slots' = request.time_slots
    /\ \/ /\ InitializeRaises(request)
          /\ result' = GeneticError
          /\ pc' = "done"
          /\ UNCHANGED loop
       \/ /\ ~InitializeRaises(request)
          /\ \E population \in Product([i \in 1..request.population_size |->
                                          Individuals(request)]) :
                loop' = [population |-> population, best_fitness |-> NegInf,
                         best_individual |-> <<>>, generation |-> 0,
                         generation_without_improvement |-> 0,
                         stopped |-> FALSE, seen_max |-> NegInf]
          /\ pc' = "evolve"
          /\ UNCHANGED result
    /\ UNCHANGED <<program, request, sections, schedule, status, allocations, alloc_pos>>
    /\ UNCHANGED grid_vars

\* one pass of the evolution loop
GeneticGeneration ==
    /\ program = "genetic" /\ pc = "evolve"
    /\ ~loop.stopped /\ loop.generation < request.generations
    /\ LET population == loop.population
           fitness_scores == [i \in 1..Len(population) |->
                                 EvaluateFitness(population[i], request)]
           max_fitness_idx == ArgMax(fitness_scores)
           improves == GeneticImproves(fitness_scores[max_fitness_idx],
                                       loop.best_fitness)
           stall == IF improves THEN 0 ELSE loop.generation_without_improvement + 1
           tracked == [loop EXCEPT
                          !.best_fitness = IF improves
                                           THEN fitness_scores[max_fitness_idx] ELSE @,
                          !.best_individual = IF improves
                                              THEN <<population[max_fitness_idx]>> ELSE @,
                          !.generation_without_improvement = stall,
                          !.seen_max = Max(@, fitness_scores[max_fitness_idx])]
           Raise == /\ result' = GeneticError
                    /\ pc' = "done"
                    /\ UNCHANGED loop
       IN IF population = <<>>
          THEN Raise      \* np.argmax of an empty list
          ELSE IF stall > StallLimit
          THEN /\ loop' = [tracked EXCEPT !.stopped = TRUE]
               /\ UNCHANGED <<result, pc>>
          ELSE \/ /\ NextPopulationRaises(population, fitness_scores, request)
                  /\ Raise
               \/ /\ \E new_population \in
                         NextPopulations(population, fitness_scores, request) :
                        loop' = [tracked EXCEPT !.population = new_population,
                                                !.generation = @ + 1]
                  /\ UNCHANGED <<result, pc>>
    /\ UNCHANGED <<program, request, time_slots, sections, schedule, status,
                   allocations, alloc_pos>>
    /\ UNCHANGED grid_vars

\* after the loop: the best individual as timetable slots, or no solution
GeneticFinish ==
    /\ program = "genetic" /\ pc = "evolve"
    /\ loop.stopped \/ loop.generation >= request.generations
    /\ IF loop.best_individual # <<>>
       THEN LET timetable_slots == IndividualToSlots(loop.best_individual[1],
                                                     request.time_slots)
            IN /\ schedule' = timetable_slots
               /\ result' = [success |-> TRUE, timetable_slots |-> timetable_slots,
                             conflicts |-> GeneticDetectConflicts(timetable_slots),
                             optimization_score |-> loop.best_fitness,
                             warnings |-> <<>>]
       ELSE /\ result' = GeneticNoSolution
            /\ UNCHANGED schedule
    /\ pc' = "done"
    /\ UNCHANGED <<loop, program, request, time_slots, sections, status,
                   allocations, alloc_pos>>
    /\ UNCHANGED grid_vars

GeneticNext == GeneticStart \/ GeneticGeneration \/ GeneticFinish

-----------------------------------------------------------------------------
-----------------------------------------------------------------------------
(* The conflict detectors, run again on a schedule an assigner returned *)

\* the schedule a finished assigner handed to its caller
ReturnedSchedule ==
    IF program = "unified" THEN result.timetable_schedule ELSE result.timetable_slots

\* _detect_conflicts of the assigner that ran
DetectConflicts(sched) ==
    IF program = "unified" THEN UnifiedDetectConflicts(sched)
    ELSE IF program = "solver" THEN SolverDetectConflicts(sched)
    ELSE GeneticDetectConflicts(sched)

\* the caller runs the detector once more on the schedule it was handed; the
\* detector builds its dicts anew and only reads the schedule
Redetect ==
    /\ program \in {"unified", "solver", "genetic"} /\ pc = "done"
    /\ result.success
    /\ loop' = [conflicts |-> DetectConflicts(ReturnedSchedule),
                schedule |-> ReturnedSchedule]
    /\ pc' = "redetected"
    /\ UNCHANGED <<program, request, time_slots, sections, schedule, status,
                   allocations, alloc_pos, result>>
    /\ UNCHANGED grid_vars

-----------------------------------------------------------------------------
(* The two section planners applied to one course *)

PlannerStudentCounts == (0..MaxStudents) \cup {200}

PlannerRequests ==
    { [course |-> CourseDefinition("DSA", type, th, lab, caps[1], caps[2], 50, TRUE),
       total_students |-> n] :
      type \in {"core", "elective"}, th \in {0, 3}, lab \in {0, 2},
      caps \in {<<2, 3>>, <<60, 40>>}, n \in PlannerStudentCounts }

\* the section counts of _calculate_sections and of calculate_required_sections
PlanSections ==
    /\ program = "planner" /\ pc = "start"
    /\ result' = [unified |-> <<UnifiedTheorySections(request.course,
                                                      request.total_students),
                                UnifiedLabSections(request.course,
                                                   request.total_students)>>,
                  engine |-> CalculateRequiredSections(request.course,
                                                       request.total_students)]
    /\ pc' = "done"
    /\ UNCHANGED <<loop, program, request, time_slots, sections, schedule, status,
                   allocations, alloc_pos>>
    /\ UNCHANGED grid_vars

-----------------------------------------------------------------------------
(* UnifiedTimetableAPI.generate_complete_timetable (unified_api_endpoint.py):
   one generator instance serves the requests of a session in turn *)

\* datetime.strptime(text, "%H:%M") on the clock texts of the requests: the
\* minutes of the day, or a ValueError
StrptimeRaises(text) == text \notin {"09:00", "10:00", "11:20"}

Strptime(text) ==
    CASE text = "09:00" -> 540
      [] text = "10:00" -> 600
      [] text = "11:20" -> 680

EndpointRequests ==
    { [college_start_time |-> st, college_end_time |-> en, slot_duration |-> 60,
       grace_time |-> 10, working_days |-> <<"Monday">>, breaks |-> <<>>,
       courses |-> <<Course("DSA", "core", 3, 0, 2, 2, 100, {})>>,
       faculty |-> FacultyList, rooms |-> RoomList, total_students |-> 0] :
      st \in {"09:00", "9 am"}, en \in {"10:00", "11:20"} }

\* a session: one request on a new instance, or the same after another request
EndpointSessions ==
    {<<r>> : r \in EndpointRequests} \cup {<<h, r>> : h, r \in EndpointRequests}

\* UnifiedTimetableGenerator.__init__
NewGenerator == [time_slots |-> <<>>, sections |-> <<>>]

\* the except branch of the generator
GeneratorFailure ==
    [success |-> FALSE, timetable_schedule |-> <<>>, sections_created |-> <<>>]

\* generator.generate_complete_timetable for a request without students: the
\* instance fields it leaves behind and the result it returns
GeneratorRuns(gen, req) ==
    IF StrptimeRaises(req.college_start_time) \/ StrptimeRaises(req.college_end_time)
    THEN {[time_slots |-> gen.time_slots, sections |-> gen.sections,
           result |-> GeneratorFailure]}
    ELSE LET cfg == [college_start_time |-> Strptime(req.college_start_time),
                     college_end_time |-> Strptime(req.college_end_time),
                     slot_duration |-> req.slot_duration,
                     grace_time |-> req.grace_time,
                     breaks |-> req.breaks, working_days |-> req.working_days]
             ts == RunWalk("unified", cfg, StartWalk(cfg)).slots
             secs == CalculateSections(req.courses, req.total_students)
             sols == UnifiedSolutions(secs, ts, req.rooms, req.faculty, req.courses)
             Returned(sched) ==
                 [time_slots |-> ts, sections |-> UnifiedAssign(secs, sched),
                  result |-> [success |-> UnifiedDetectConflicts(sched) = <<>>,
                              timetable_schedule |-> sched,
                              sections_created |-> UnifiedAssign(secs, sched)]]
         IN {Returned(UnifiedExtract(X, secs, ts, req.rooms, req.faculty)) : X \in sols}
            \cup {Returned(<<>>)}
            \cup (IF sols = {} THEN {}
                  ELSE {[time_slots |-> ts, sections |-> secs,
                         result |-> GeneratorFailure]})

\* "Format response": the time slots are read from the generator instance,
\* the sections and the schedule from the result
EndpointResponse(run) ==
    [success |-> run.result.success,
     time_slots |-> run.time_slots,
     sections |-> run.result.sections_created,
     schedule |-> run.result.timetable_schedule]

\* the endpoint serves the next request of the session
EndpointServe ==
    /\ program = "endpoint" /\ pc = "start"
    /\ LET n == Len(loop.responses) + 1
       IN /\ n <= Len(request)
          /\ \E run \in GeneratorRuns([time_slots |-> time_slots, sections |-> sections],
                                      request[n]) :
                /\ time_slots' = run.time_slots
                /\ sections' = run.sections
                /\ schedule' = run.result.timetable_schedule
                /\ result' = EndpointResponse(run)
                /\ loop' = [responses |-> Append(loop.responses, EndpointResponse(run))]
          /\ pc' = IF n = Len(request) THEN "done" ELSE "start"
    /\ UNCHANGED <<program, request, status, allocations, alloc_pos>>
    /\ UNCHANGED grid_vars

-----------------------------------------------------------------------------
(* UnifiedTimetableGenerator._calculate_metrics and
   _calculate_optimization_score.  Percentages are kept in tenths. *)

MaxConflicts == 6

\* round(100 * num / den, 1) in tenths: Python rounds a tie to the even digit
RoundedTenths(num, den) ==
    LET q == (1000 * num) \div den
        r == (1000 * num) % den
    IN IF 2 * r > den THEN q + 1
       ELSE IF 2 * r < den THEN q
       ELSE IF q % 2 = 0 THEN q ELSE q + 1

\* the inputs of the metrics as counts: minutes taught and hours of capacity,
\* entries and (slot, room) pairs, allocations made and possible
ScorerRequests ==
    { [faculty |-> f, rooms |-> r, allocation |-> a,
       conflicts |-> [i \in 1..(h + m + l) |->
                         [severity |-> IF i <= h THEN "high"
                                       ELSE IF i <= h + m THEN "medium" ELSE "low"]]] :
      f \in {<<0, 0>>, <<420, 10>>, <<480, 10>>, <<8700, 207>>},
      r \in {<<0, 0>>, <<3, 5>>, <<4, 5>>, <<242, 403>>},
      a \in {<<0, 0>>, <<9, 10>>, <<10, 10>>, <<3, 2>>},
      h \in 0..MaxConflicts, m \in 0..2, l \in 0..1 }

CalculateMetrics(req) ==
    [faculty_utilization |->
        IF req.faculty[2] > 0 THEN RoundedTenths(req.faculty[1], 60 * req.faculty[2])
        ELSE 0,
     room_utilization |->
        IF req.rooms[2] > 0 THEN RoundedTenths(req.rooms[1], req.rooms[2]) ELSE 0,
     allocation_success_rate |->
        IF req.allocation[2] > 0 THEN RoundedTenths(req.allocation[1], req.allocation[2])
        ELSE 0]

SeverityCount(conflicts, severity) ==
    Cardinality({i \in 1..Len(conflicts) : conflicts[i].severity = severity})

ScoreBonusesFiveEach(metrics) ==
    (IF metrics.faculty_utilization > 700 THEN 5 ELSE 0)
    + (IF metrics.room_utilization > 600 THEN 5 ELSE 0)
    + (IF metrics.allocation_success_rate > 900 THEN 5 ELSE 0)

\* "Bonus for good utilization"
ScoreBonuses(metrics) ==
    (IF metrics.faculty_utilization > 700 THEN 5 ELSE 0)
    + (IF metrics.room_utilization > 600 THEN 5 ELSE 0)
    + (IF metrics.allocation_success_rate > 900 THEN 10 ELSE 0)

Clamp(lo, hi, x) == IF x < lo THEN lo ELSE IF x > hi THEN hi ELSE x

CalculateOptimizationScore(metrics, conflicts) ==
    Clamp(0, 100, 100 - 20 * SeverityCount(conflicts, "high")
                      - 10 * SeverityCount(conflicts, "medium")
                      + ScoreBonuses(metrics))

\* Step 6 of generate_complete_timetable on given counts
ScoreRun ==
    /\ program = "scorer" /\ pc = "start"
    /\ LET metrics == CalculateMetrics(request)
       IN result' = [metrics |-> metrics,
                     optimization_score |->
                         CalculateOptimizationScore(metrics, request.conflicts)]
    /\ pc' = "done"
    /\ UNCHANGED <<loop, program, request, time_slots, sections, schedule, status,
                   allocations, alloc_pos>>
    /\ UNCHANGED grid_vars

-----------------------------------------------------------------------------
(* ElectiveAssignmentOptimizer._improve_assignments on its own: the local
   search started from any assignment that respects feasibility and capacity *)

\* the sections of the list that are feasible for a student and belong to an
\* elective the student listed
ImproverChoices(secs, preference) ==
    {0} \cup {s \in 1..Len(secs) :
                /\ secs[s].elective_id \in Range(preference.preferences)
                /\ CheckSectionFeasibility(CoreSlots(preference.student_id),
                                           secs[s].slot_pattern)}

\* initial_assignments: a dictionary in student order, no section over capacity
ImproverAssignments(secs, preferences) ==
    LET picks == {f \in Product([p \in 1..Len(preferences) |->
                                    ImproverChoices(secs, preferences[p])]) :
                     \A s \in 1..Len(secs) :
                        Cardinality({p \in 1..Len(preferences) : f[p] = s})
                            <= secs[s].max_students}
        Placed(f) == LET In(p) == f[p] # 0
                     IN SelectSeq([p \in 1..Len(preferences) |-> p], In)
    IN {[k \in 1..Len(Placed(f)) |->
            <<preferences[Placed(f)[k]].student_id, secs[f[Placed(f)[k]]].section_id>>] :
        f \in picks}

ImproverRequests ==
    UNION {{[sections |-> r.sections, preferences |-> r.preferences,
             initial_assignments |-> a] :
            a \in ImproverAssignments(r.sections, r.preferences)} :
           r \in ElectiveRequests}

\* the set-up of _improve_assignments: assignments = initial_assignments.copy()
ImproverStart ==
    /\ program = "improver" /\ pc = "start"
    /\ sections' = request.sections
    /\ allocations' = request.initial_assignments
    /\ loop' = [constraints |-> BuildConstraints(request.sections, request.preferences),
                improved |-> TRUE, iterations |-> 0, items |-> <<>>, pos |-> 1]
    /\ pc' = "improve"
    /\ UNCHANGED <<program, request, time_slots, schedule, status, alloc_pos, result>>
    /\ UNCHANGED grid_vars

ImproverInit ==
    /\ GridIdle
    /\ \E req \in ImproverRequests : StartRun("improver", req)

ImproverNext == ImproverStart \/ ElectivePass \/ ElectiveImprove \/ ElectiveFinish

\* the search is a sequential loop: a step that can be taken is taken
SpecImprover == ImproverInit /\ [][ImproverNext]_vars /\ WF_vars(ImproverNext)

-----------------------------------------------------------------------------
(* The conflict detectors on schedules given by the caller *)

MaxEntries == 3

\* schedule entries: two faculty members, two rooms, two start times of one
\* day; section_id tells the entries of a schedule apart
DetectorEntry(i, faculty_id, room_id, start_time) ==
    [section_id |-> i, faculty_id |-> faculty_id, room_id |-> room_id,
     day |-> "Monday", start_time |-> start_time]

DetectorRequests ==
    UNION {{[i \in 1..n |-> DetectorEntry(i, f[i], r[i], t[i])] :
            f \in [1..n -> {"F1", "F2"}], r \in [1..n -> {"R1", "R2"}],
            t \in [1..n -> {540, 610}]} : n \in 0..MaxEntries}

\* _detect_conflicts of the unified generator and of the constraint solver on
\* the same schedule
DetectRun ==
    /\ program = "detector" /\ pc = "start"
    /\ result' = [unified |-> UnifiedDetectConflicts(request),
                  solver |-> SolverDetectConflicts(request)]
    /\ pc' = "done"
    /\ UNCHANGED <<loop, program, request, time_slots, sections, schedule, status,
                   allocations, alloc_pos>>
    /\ UNCHANGED grid_vars

-----------------------------------------------------------------------------
(* The asynchronous optimization jobs of the API server *)

\* job ids made by uuid4: each submission has a new one
MaxJobs == 3
JobIds == 1..MaxJobs

Algorithms == {"constraint_solver", "genetic_algorithm"}

\* the server's state is kept in loop: the dictionary optimization_jobs, the
\* number of ids made, the background tasks added and not begun, the task on
\* the event loop, and how each finished task ended
optimization_jobs == loop.optimization_jobs
background_tasks == loop.background_tasks

\* handlers and tasks are coroutines of one event loop and none of them awaits:
\* while a task is between its first and last line no handler runs
EventLoopFree == loop.current = 0

JobsInit ==
    /\ GridIdle
    /\ program = "jobs" /\ request = <<>>
    /\ time_slots = <<>> /\ sections = <<>> /\ schedule = <<>> /\ status = "NONE"
    /\ allocations = <<>> /\ alloc_pos = 0 /\ result = <<>>
    /\ loop = [optimization_jobs |-> <<>>, made |-> 0, background_tasks |-> {},
               current |-> 0, ended |-> <<>>]
    /\ pc = "serve"

JobsUnchanged ==
    /\ UNCHANGED <<program, request, time_slots, sections, schedule, status,
                   allocations, alloc_pos, pc>>
    /\ UNCHANGED grid_vars

\* d[key] = value on a dictionary kept as a function
SetItem(d, key, value) ==
    [k \in DOMAIN d \cup {key} |-> IF k = key THEN value ELSE d[k]]

\* del d[key]
DelItem(d, key) == [k \in DOMAIN d \ {key} |-> d[k]]

\* POST /optimize/async: store the job as pending, add the background task
optimize_timetable_async ==
    /\ program = "jobs" /\ EventLoopFree
    /\ loop.made < MaxJobs
    /\ \E algorithm \in Algorithms :
          LET job_id == loop.made + 1
          IN /\ loop' = [loop EXCEPT
                    !.optimization_jobs =
                        SetItem(@, job_id,
                                [job_id |-> job_id, status |-> "pending",
                                 progress |-> 0, result |-> "None",
                                 error_message |-> "None",
                                 algorithm |-> algorithm]),
                    !.made = job_id,
                    !.background_tasks = @ \cup {job_id}]
             /\ result' = [job_id |-> job_id, status |-> "pending"]
    /\ JobsUnchanged

\* DELETE /optimize/jobs/{job_id}: 404 for an unknown id, else del
delete_optimization_job ==
    /\ program = "jobs" /\ EventLoopFree
    /\ \E job_id \in JobIds :
          IF job_id \notin DOMAIN optimization_jobs
          THEN /\ result' = [status_code |-> 404, job_id |-> job_id]
               /\ UNCHANGED loop
          ELSE /\ loop' = [loop EXCEPT !.optimization_jobs = DelItem(@, job_id)]
               /\ result' = [status_code |-> 200, job_id |-> job_id]
    /\ JobsUnchanged

\* the except block of run_optimization_job: it indexes optimization_jobs
\* again, and a KeyError raised there leaves the task
JobFailed(jobs, job_id, error) ==
    IF job_id \in DOMAIN jobs
    THEN [jobs |-> [jobs EXCEPT ![job_id].status = "failed",
                                ![job_id].error_message = error],
          ended |-> "returned"]
    ELSE [jobs |-> jobs, ended |-> "KeyError"]

\* run_optimization_job up to the call of the solver: a missing job raises
\* KeyError on the first line of the try block
RunJobBegin ==
    /\ program = "jobs" /\ EventLoopFree
    /\ \E job_id \in background_tasks :
          IF job_id \in DOMAIN optimization_jobs
          THEN /\ loop' = [loop EXCEPT
                      !.optimization_jobs[job_id].status = "running",
                      !.optimization_jobs[job_id].progress = 50,
                      !.background_tasks = @ \ {job_id},
                      !.current = job_id]
          ELSE LET handled == JobFailed(optimization_jobs, job_id, "KeyError")
               IN loop' = [loop EXCEPT
                      !.optimization_jobs = handled.jobs,
                      !.background_tasks = @ \ {job_id},
                      !.ended = SetItem(@, job_id, handled.ended)]
    /\ UNCHANGED result
    /\ JobsUnchanged

\* the rest of the try block: solve_timetable of either solver catches every
\* Exception and returns a result, with or without a schedule
RunJobSolve ==
    /\ program = "jobs" /\ loop.current # 0
    /\ \E solved \in {"success", "no_solution"} :
          LET job_id == loop.current
          IN loop' = [loop EXCEPT
                !.optimization_jobs[job_id].status = "completed",
                !.optimization_jobs[job_id].progress = 100,
                !.optimization_jobs[job_id].result = solved,
                !.current = 0,
                !.ended = SetItem(@, job_id, "returned")]
    /\ UNCHANGED result
    /\ JobsUnchanged

JobsNext ==
    optimize_timetable_async \/ delete_optimization_job \/ RunJobBegin \/ RunJobSolve

SpecJobs == JobsInit /\ [][JobsNext]_vars

Init ==
    /\ GridIdle
    /\ \/ \E req \in UnifiedRequests : StartRun("unified", req)
       \/ \E req \in ApiRequests : StartRun("api", req)
       \/ \E req \in SolverRequests : StartRun("solver", req)
       \/ \E req \in EngineRequests : StartRun("engine", req)
       \/ \E req \in ElectiveRequests : StartRun("elective", req)
       \/ \E req \in PlannerRequests : StartRun("planner", req)
       \/ \E req \in GeneticRequests : StartRun("genetic", req)
       \/ \E req \in ScorerRequests : StartRun("scorer", req)
       \/ \E req \in DetectorRequests : StartRun("detector", req)
       \/ \E session \in EndpointSessions :
             /\ program = "endpoint" /\ request = session
             /\ time_slots = NewGenerator.time_slots /\ sections = NewGenerator.sections
             /\ schedule = <<>> /\ status = "NONE" /\ allocations = <<>>
             /\ alloc_pos = 0 /\ loop = [responses |-> <<>>] /\ result = <<>>
             /\ pc = "start"

Next ==
    \/ UnifiedNext \/ ApiNext \/ SolverNext \/ EngineNext \/ ElectiveNext
    \/ PlanSections \/ GeneticNext \/ Redetect \/ EndpointServe \/ ScoreRun
    \/ DetectRun

Spec == Init /\ [][Next]_vars

-----------------------------------------------------------------------------
(* Properties of the assigners, the planners and the allocators *)

Solved == status \in {"OPTIMAL", "FEASIBLE"}

EntryRoom(e) == IF program = "api" THEN e.room ELSE e.room_id
EntryFaculty(e) == IF program = "api" THEN e.faculty ELSE e.faculty_id
EntrySlot(e) == <<e.day, IF program = "api" THEN e.start ELSE e.start_time>>

\* C1: in a schedule an assigner returns with status OPTIMAL or FEASIBLE no two
\* entries share a (room, slot) or a (faculty, slot), and the conflict
\* detector of the assigner finds no conflict in it.
C1_SolvedSchedulesConflictFree ==
    (program \in {"unified", "api", "solver"} /\ Solved) =>
        /\ \A i, j \in 1..Len(schedule) :
              (i < j /\ EntrySlot(schedule[i]) = EntrySlot(schedule[j])) =>
                  /\ EntryRoom(schedule[i]) # EntryRoom(schedule[j])
                  /\ EntryFaculty(schedule[i]) # EntryFaculty(schedule[j])
        /\ program = "unified" => UnifiedDetectConflicts(schedule) = <<>>
        /\ program = "solver" => SolverDetectConflicts(schedule) = <<>>

\* a solved schedule with two sections in one slot, in two rooms
C1_Witness ==
    /\ program = "unified" /\ Solved /\ pc = "done" /\ result.success
    /\ \E i, j \in 1..Len(schedule) :
          i < j /\ EntrySlot(schedule[i]) = EntrySlot(schedule[j])

\* the slots of the first working day: their ids are distinct
FirstDaySlots(ts) ==
    LET First(slot) == slot.day = ts[1].day
    IN SelectSeq(ts, First)

\* C2: when an assignment satisfying the hard constraints exists for a grid of
\* several working days and the search is not cut short, the schedule that
\* _solve_timetable_constraints returns has an entry for every section.
C2_MultiDayScheduleComplete ==
    ( /\ program = "unified" /\ pc = "allocate"
      /\ Len(request.config.working_days) > 1
      /\ status # "UNKNOWN"
      /\ UnifiedSolutions(sections, FirstDaySlots(time_slots), request.rooms,
                          request.faculty, request.courses) # {} )
    => \A s \in 1..Len(sections) :
          \E i \in 1..Len(schedule) : schedule[i].section_id = sections[s].section_id

\* C3: when the search ends without a solution the result is flagged as not
\* successful.
C3_NoSolutionFlagged ==
    ( /\ program \in {"unified", "api", "solver"} /\ pc = "done"
      /\ status \in {"INFEASIBLE", "UNKNOWN"} )
    => ~result.success

\* the meetings a section needs a week
RequiredMeetings(hours_theory, hours_lab, kind) ==
    IF kind = "theory" THEN hours_theory ELSE MathCeil(hours_lab, 2)

\* C4: after a successful solve, and for every section the planner creates
\* with slots, a section has as many assigned slots as required meetings.
C4_AssignedSlotsMatchRequired ==
    /\ (program = "unified" /\ pc = "allocate" /\ Solved) =>
          \A s \in 1..Len(sections) :
              LET course == CourseOf(request.courses, sections[s].course_id)
              IN Len(sections[s].assigned_slots) =
                    RequiredMeetings(course.theory_hours, course.lab_hours,
                                     sections[s].section_type)
    /\ (program = "engine" /\ pc \in {"allocate", "done"}) =>
          \A s \in 1..Len(sections) :
              LET course == CourseOf(request.courses, sections[s].course_id)
              IN Len(sections[s].assigned_slots) =
                    RequiredMeetings(course.theory_hours, course.lab_hours,
                                     sections[s].session_type)

\* the sections a student is allocated to, as positions in `sections`
AllocatedSections(si) ==
    LET mine == IF program = "engine" THEN allocations[si].allocated_sections
                ELSE allocations[si]
    IN {s \in 1..Len(sections) : \E a \in mine : a.section_id = sections[s].section_id}

\* C5: after allocation, any two distinct sections a student is allocated to
\* have disjoint assigned slots.
C5_AllocatedSectionsDisjoint ==
    (program \in {"unified", "engine"} /\ pc \in {"allocate", "done"}) =>
        \A si \in 1..Len(allocations) : \A s, t \in AllocatedSections(si) :
            s # t => Range(sections[s].assigned_slots)
                        \cap Range(sections[t].assigned_slots) = {}

\* C6: after every step of an allocation (first fit per course, the elective
\* greedy loop and its local search) no section holds more students than its
\* capacity.
C6_EnrolledWithinCapacity ==
    /\ program = "unified" =>
          \A s \in 1..Len(sections) :
              Len(sections[s].enrolled_students) <= sections[s].max_students
    /\ program = "engine" =>
          \A s \in 1..Len(sections) :
              Len(sections[s].enrolled_students) <= sections[s].max_capacity
    /\ (program = "elective" /\ pc # "start") =>
          \A s \in 1..Len(sections) :
              /\ EnrolledIn(allocations, sections[s].section_id)
                    <= sections[s].max_students
              /\ pc = "greedy" =>
                    loop.section_enrolled[s] <= sections[s].max_students

\* both sections of an elective are full and a student was turned away
C6_Witness ==
    /\ program = "elective" /\ pc = "done"
    /\ result.unassigned_students # {}
    /\ \E s \in 1..Len(sections) :
          EnrolledIn(allocations, sections[s].section_id) = sections[s].max_students

\* n is the ceiling of a / b
IsCeiling(n, a, b) == n * b >= a /\ (n - 1) * b < a

ExpectedStudents(course, total_students) ==
    IF course.course_type = "elective" THEN (total_students * course.demand_percent) \div 100
    ELSE total_students

\* the section counts of a planner are ceilings, apart from a floor
CountsAreCeilings(counts, floor) ==
    LET expected == ExpectedStudents(request.course, request.total_students)
        Right(n, hours, capacity) ==
            IF hours > 0
            THEN \E c \in 0..(expected + 1) :
                    IsCeiling(c, expected, capacity) /\ n = Max(floor, c)
            ELSE n = 0
    IN /\ Right(counts[1], request.course.theory_hours, request.course.max_theory_capacity)
       /\ Right(counts[2], request.course.lab_hours, request.course.max_lab_capacity)

\* C10 as stated: both planners create ceil(expected / capacity) sections of a
\* kind the course has hours of, and none of a kind it has no hours of.
C10_SectionCountIsCeiling ==
    (program = "planner" /\ pc = "done") =>
        /\ CountsAreCeilings(result.engine, 0)
        /\ CountsAreCeilings(result.unified, 0)

\* C10, amended: calculate_required_sections creates ceil(expected / capacity)
\* sections; _calculate_sections creates max(1, ceil(expected / capacity)).
C10_SectionCountAmended ==
    (program = "planner" /\ pc = "done") =>
        /\ CountsAreCeilings(result.engine, 0)
        /\ CountsAreCeilings(result.unified, 1)

\* 200 students, a capacity of 60 and three theory hours: four sections
C10_Witness ==
    /\ program = "planner" /\ pc = "done"
    /\ request.total_students = 200 /\ request.course.course_type = "core"
    /\ request.course.max_theory_capacity = 60 /\ request.course.theory_hours = 3
    /\ result.engine[1] = 4 /\ result.unified[1] = 4

-----------------------------------------------------------------------------
(* Properties of the genetic solver *)

\* C11: in the genetic solver the recorded best fitness never decreases from
\* one generation to the next, it is the highest fitness any generation
\* evaluated, and the individual returned is the one that achieved it.
C11_BestEverTracked ==
    [][ (program = "genetic" /\ pc = "evolve") =>
          /\ loop'.best_fitness >= loop.best_fitness
          /\ loop'.best_fitness = loop'.seen_max
          /\ loop'.best_individual # <<>> =>
                EvaluateFitness(loop'.best_individual[1], request) = loop'.seen_max
          /\ (pc' = "done" /\ result'.success) =>
                /\ result'.optimization_score = loop.seen_max
                /\ result'.timetable_slots =
                      IndividualToSlots(loop.best_individual[1], request.time_slots) ]_vars

\* a run of two generations returns a best individual that is better than a
\* member of the last population
C11_Witness ==
    /\ program = "genetic" /\ pc = "done" /\ result.success
    /\ loop.generation >= 2
    /\ \E i \in 1..Len(loop.population) :
          EvaluateFitness(loop.population[i], request) < loop.best_fitness

-----------------------------------------------------------------------------
(* Properties of the solved schedules *)

\* the section an entry is a meeting of: the course in TimetableConstraintSolver
EntrySection(e) == IF program = "solver" THEN e.course_id ELSE e.section_id

EntryHours(e) ==
    IF program = "api" THEN (e.end - e.start) \div 60 ELSE e.duration \div 60

FacultyId(f) == IF program = "solver" THEN f.id ELSE f.faculty_id

\* C14: in a schedule a constraint assigner returns as solved, the hours of
\* the entries of a faculty member sum to at most max_hours_per_week.
C14_FacultyHoursWithinMax ==
    (program \in {"unified", "api", "solver"} /\ Solved) =>
        \A f \in 1..Len(request.faculty) :
            SumFn([i \in {k \in 1..Len(schedule) :
                            EntryFaculty(schedule[k]) = FacultyId(request.faculty[f])} |->
                      EntryHours(schedule[i])])
                <= request.faculty[f].max_hours_per_week

-----------------------------------------------------------------------------
(* Invalid grid configurations *)

InvalidDurations(cfg) == cfg.slot_duration <= 0 \/ cfg.grace_time <= 0

\* C16: a grid built with a zero or negative slot duration or grace time
\* emits no slot (the configuration is rejected first), and an iteration of
\* the day walk always moves the cursor forward.
C16_InvalidGridRejected ==
    /\ [](InvalidDurations(config) => slots = <<>>)
    /\ [][ (grid_pc = "walk" /\ grid_pc' = "walk" /\ day_index' = day_index)
             => current_time' > current_time ]_vars

\* a walk with slot length 0 and grace time 0 that emitted two slots at the
\* opening time and still stands there
C16_StalledWalk ==
    /\ config.slot_duration = 0 /\ config.grace_time = 0
    /\ grid_pc = "walk" /\ current_time = config.college_start_time
    /\ Len(slots) = MaxStalledSlots

-----------------------------------------------------------------------------
(* Infeasible requests *)

\* some chromosome of the request books no faculty member and no room twice
\* at one time
GeneticFeasible(req) ==
    \E individual \in Individuals(req) :
        LET tslots == IndividualToSlots(individual, req.time_slots)
        IN tslots = <<>> \/ ConflictScore(tslots) = 100000

HardConstraintsUnsatisfiable ==
    \/ /\ program = "solver"
       /\ SolverSolutions(request.courses, request.faculty, request.rooms,
                          request.time_slots) = {}
    \/ program = "genetic" /\ ~GeneticFeasible(request)

\* C17: when no arrangement satisfies the hard constraints, solve_timetable of
\* either solver returns a result that is not a success and whose conflict
\* list is not empty.
C17_InfeasibleReported ==
    (pc = "done" /\ program \in {"solver", "genetic"} /\ HardConstraintsUnsatisfiable)
        => (~result.success /\ result.conflicts # <<>>)

\* the constraint solver ended INFEASIBLE with an empty conflict list
C17_SolverSilent ==
    /\ program = "solver" /\ pc = "done" /\ status = "INFEASIBLE"
    /\ ~result.success /\ result.conflicts = <<>>

\* the genetic solver reported success for a request that has no clash-free
\* chromosome
C17_GeneticSuccess ==
    /\ program = "genetic" /\ pc = "done" /\ ~GeneticFeasible(request)
    /\ result.success

-----------------------------------------------------------------------------
(* Requests of one endpoint instance *)

\* C18: the response to a request does not depend on the requests served
\* before it: its time slots, sections and schedule are those a new instance
\* can return for the same request.
C18_NoStateAcrossRequests ==
    program = "endpoint" =>
        \A i \in 1..Len(loop.responses) :
            \E run \in GeneratorRuns(NewGenerator, request[i]) :
                /\ loop.responses[i].time_slots = EndpointResponse(run).time_slots
                /\ loop.responses[i].sections = EndpointResponse(run).sections
                /\ loop.responses[i].schedule = EndpointResponse(run).schedule

\* a request whose opening time does not parse, answered with the time slots
\* of the request served before it
C18_StaleTimeSlots ==
    /\ program = "endpoint" /\ pc = "done" /\ Len(request) = 2
    /\ StrptimeRaises(request[2].college_start_time)
    /\ loop.responses[2].time_slots # <<>>

-----------------------------------------------------------------------------
(* The optimization score *)

Scored == program = "scorer" /\ pc = "done"

\* num / den, as a percentage, is more than pct (0 when den is 0)
PercentAbove(pair, scale, pct) ==
    pair[2] > 0 /\ 100 * pair[1] > pct * scale * pair[2]

\* num / den, as a percentage rounded to one decimal, is more than pct
RoundedPercentAbove(pair, scale, pct) ==
    pair[2] > 0 /\ 2000 * pair[1] > (20 * pct + 1) * scale * pair[2]

PenaltyOf(conflicts) ==
    20 * SeverityCount(conflicts, "high") + 10 * SeverityCount(conflicts, "medium")

\* C19 as stated: 100 - 20 per high - 10 per medium conflict, + 5 for each of
\* faculty utilization > 70%, room utilization > 60% and allocation success
\* rate > 90%, clamped to [0, 100].
C19_ScoreFiveEach ==
    Scored =>
        result.optimization_score =
            Clamp(0, 100, 100 - PenaltyOf(request.conflicts)
                + (IF PercentAbove(request.faculty, 60, 70) THEN 5 ELSE 0)
                + (IF PercentAbove(request.rooms, 1, 60) THEN 5 ELSE 0)
                + (IF PercentAbove(request.allocation, 1, 90) THEN 5 ELSE 0))

\* C19 amended: the bonuses are 5, 5 and 10, and each is granted when the
\* percentage rounded to one decimal exceeds its threshold.
C19_ScoreAmended ==
    Scored =>
        result.optimization_score =
            Clamp(0, 100, 100 - PenaltyOf(request.conflicts)
                + (IF RoundedPercentAbove(request.faculty, 60, 70) THEN 5 ELSE 0)
                + (IF RoundedPercentAbove(request.rooms, 1, 60) THEN 5 ELSE 0)
                + (IF RoundedPercentAbove(request.allocation, 1, 90) THEN 10 ELSE 0))

\* one high-severity conflict and only the allocation bonus: 100 - 20 + 10
C19_Witness ==
    /\ Scored
    /\ SeverityCount(request.conflicts, "high") = 1
    /\ SeverityCount(request.conflicts, "medium") = 0
    /\ request.allocation = <<10, 10>>
    /\ request.faculty = <<8700, 207>> /\ request.rooms = <<3, 5>>
    /\ result.optimization_score = 90

-----------------------------------------------------------------------------
(* Students no section qualifies for *)

\* the (student, course) pairs of a finished allocation without a section
EngineUnassigned ==
    {<<si, course_id>> \in (1..Len(allocations)) \X Range(CourseOrder(sections)) :
        \A a \in allocations[si].allocated_sections : a.course_id # course_id}

\* C20: when the sectioning engine leaves a student without a section of a
\* course, the result of optimize_sectioning lists a conflict.
C20_UnassignedRecorded ==
    (program = "engine" /\ pc = "done" /\ EngineUnassigned # {})
        => result.conflicts # <<>>

-----------------------------------------------------------------------------
(* Candidates that intersect a break *)

\* the end of a break as the walk of the builder reads it
BreakEndOf(b, break_info) ==
    IF b = "unified" THEN break_info.end_time ELSE BreakEndTime(break_info)

\* the breaks the candidate slot starting at the cursor intersects
BreaksHit ==
    {i \in 1..Len(config.breaks) :
        Intersects(TimeOf(current_time), TimeOf(current_time + config.slot_duration),
                   config.breaks[i].start_time, BreakEndOf(builder, config.breaks[i]))}

\* C21: when the candidate slot of a datetime walk intersects a break, the
\* iteration emits nothing, consumes no slot label, and the next candidate
\* starts exactly at the end of that break.
C21_ResumeAtBreakEnd ==
    [][ ( /\ builder \in {"unified", "comprehensive"} /\ ValidConfig(config)
          /\ InDay(config, CurrentWalk) /\ BreaksHit # {} )
        => ( /\ slots' = slots /\ slot_index' = slot_index
             /\ \E i \in BreaksHit :
                   current_time' = BreakEndOf(builder, config.breaks[i]) ) ]_vars

\* C21, the label half alone: a skipped candidate emits nothing and leaves the
\* label counter where it was
C21_SkippedKeepsLabel ==
    [][ ( /\ builder \in {"unified", "comprehensive"} /\ ValidConfig(config)
          /\ InDay(config, CurrentWalk) /\ BreaksHit # {} )
        => (slots' = slots /\ slot_index' = slot_index) ]_vars

-----------------------------------------------------------------------------
(* The length of the evolution loop *)

\* C22: the evolution loop runs at most `generations` passes, and a pass that
\* is the 50th consecutive one without an improvement of the best fitness
\* breeds no new population.
C22_StopsAtFiftyStalls ==
    [][ (program = "genetic" /\ pc = "evolve") =>
          /\ loop'.generation <= request.generations
          /\ loop'.generation_without_improvement >= 50
                => loop'.generation = loop.generation ]_vars

\* C22, the first half alone: at most `generations` passes
C22_AtMostGenerations ==
    (program = "genetic" /\ pc \in {"evolve", "done"} /\ loop # <<>>)
        => loop.generation <= request.generations

\* the loop bred a new population after its 50th consecutive pass without
\* improvement
C22_BredAfterFifty ==
    /\ program = "genetic" /\ pc = "evolve"
    /\ loop.generation_without_improvement = 50 /\ loop.generation = 51

-----------------------------------------------------------------------------
(* The two detectors of the solvers on one schedule *)

\* C23: the conflict list in the genetic solver's result is the list the
\* constraint solver's detector computes on the returned schedule; two entries
\* in one room at one time give a room-conflict record.
C23_GeneticReportsRoomClashes ==
    (program = "genetic" /\ pc = "done" /\ result.success) =>
        result.conflicts = SolverDetectConflicts(result.timetable_slots)

\* a returned schedule with two entries in one room at one time and an empty
\* conflict list
C23_RoomClashUnreported ==
    /\ program = "genetic" /\ pc = "done" /\ result.success
    /\ result.conflicts = <<>>
    /\ \E i, j \in 1..Len(result.timetable_slots) :
          /\ i < j
          /\ result.timetable_slots[i].room_id = result.timetable_slots[j].room_id
          /\ result.timetable_slots[i].day = result.timetable_slots[j].day
          /\ result.timetable_slots[i].start_time = result.timetable_slots[j].start_time

-----------------------------------------------------------------------------
(* Days with more slots than labels *)

\* C24: a grid builder labels every teaching slot that fits the day, however
\* many there are; it never fails for want of a label.
C24_LabellingNeverFails ==
    /\ grid_pc # "error"
    /\ (grid_pc = "walk" /\ builder = "config" /\ ~IsBreakTime(current_time, config.breaks)
        /\ current_time < config.college_end_time
        /\ AddMinutesToTime(current_time, config.slot_duration) <= config.college_end_time)
          => slot_index < ConfigLabelCount

\* the datetime walk of the unified generator rotates: the eleventh slot of a
\* day is labelled with the first letter and the number 2
C24_UnifiedRotates ==
    /\ builder = "unified"
    /\ \E i \in 1..Len(slots) : slots[i].slot_id = <<1, 2>>

-----------------------------------------------------------------------------
(* The elective local search *)

\* the preference rank of the section a student holds in an assignment
HeldRank(assignments, student_id) ==
    GetPreferenceRank(student_id, AssignedSection(assignments, student_id),
                      loop.constraints)

\* a section is feasible for the student and has a free seat in the assignment
OpenFor(assignments, student_id, section) ==
    /\ CheckSectionFeasibility(CoreSlots(student_id), section.slot_pattern)
    /\ EnrolledIn(assignments, section.section_id) < section.max_students

\* the search of the improver is over
Improved == program = "improver" /\ pc = "done"

\* C25: every move of the local search takes an assigned student to a section
\* that is feasible for them, strictly better ranked than the one they hold
\* and not full at that moment; the search terminates; no student ends with a
\* worse rank than they started with; and when the search stops before the
\* pass limit no assigned student has a better-ranked feasible section with a
\* free seat.
C25_LocalSearchImproves ==
    /\ [][ (program = "improver" /\ pc = "improve") =>
             /\ Len(allocations') = Len(allocations)
             /\ \A i \in 1..Len(allocations) :
                   allocations'[i] # allocations[i] =>
                      /\ allocations'[i][1] = allocations[i][1]
                      /\ OpenFor(allocations, allocations[i][1],
                                 ElectiveSectionOf(sections, allocations'[i][2]))
                      /\ HeldRank(allocations', allocations[i][1])
                            < HeldRank(allocations, allocations[i][1]) ]_vars
    /\ [](Improved =>
             /\ \A i \in 1..Len(allocations) :
                   HeldRank(allocations, allocations[i][1])
                      <= HeldRank(request.initial_assignments, allocations[i][1])
             /\ loop.iterations < MaxIterations =>
                   \A i \in 1..Len(allocations) : \A s \in 1..Len(sections) :
                      ~ /\ OpenFor(allocations, allocations[i][1], sections[s])
                        /\ GetPreferenceRank(allocations[i][1], sections[s].section_id,
                                             loop.constraints)
                              < HeldRank(allocations, allocations[i][1]))
    /\ <>(program = "improver" => pc = "done")

\* a finished search that moved two students, the second into the seat the
\* first one left
C25_Witness ==
    /\ Improved /\ loop.iterations >= 2
    /\ \E i, j \in 1..Len(allocations) :
          /\ i # j
          /\ allocations[i] # request.initial_assignments[i]
          /\ allocations[j] # request.initial_assignments[j]
          /\ allocations[j][2] = request.initial_assignments[i][2]

\* after the greedy phase of _solve_assignment_problem the local search finds
\* nothing to move: a section that was full for a student is still full
GreedyLeavesNoMove ==
    (program = "elective" /\ pc = "improve") => (loop.iterations >= 1 => ~loop.improved)

-----------------------------------------------------------------------------
(* One record per group of clashing entries *)

\* the groups of entries of a schedule that share a key and have more than
\* one member
ClashGroups(sched, keys) ==
    {g \in {{sched[j] : j \in {j \in 1..Len(sched) : keys[j] = keys[i]}} :
               i \in 1..Len(sched)} : Cardinality(g) > 1}

\* exactly one record of the kind lists exactly the entries of each group, and
\* there is no other record of the kind
OneRecordPerGroup(conflicts, items, kind, groups) ==
    LET mine == {n \in 1..Len(conflicts) : conflicts[n].type = kind}
    IN /\ \A g \in groups :
             Cardinality({n \in mine : Range(items[n]) = g}) = 1
       /\ Cardinality(mine) = Cardinality(groups)

\* C26: each detector emits exactly one record for every (faculty, slot) group
\* and every (room, slot) group with more than one entry, and the record lists
\* all the entries of the group.
C26_OneRecordListsGroup ==
    (program = "detector" /\ pc = "done") =>
        LET fkeys == [i \in 1..Len(request) |->
                         <<request[i].faculty_id, request[i].day, request[i].start_time>>]
            rkeys == [i \in 1..Len(request) |->
                         <<request[i].room_id, request[i].day, request[i].start_time>>]
            uitems == [n \in 1..Len(result.unified) |-> result.unified[n].affected_items]
            sitems == [n \in 1..Len(result.solver) |-> result.solver[n].affected_slots]
        IN /\ OneRecordPerGroup(result.unified, uitems, "faculty_conflict",
                                ClashGroups(request, fkeys))
           /\ OneRecordPerGroup(result.unified, uitems, "room_conflict",
                                ClashGroups(request, rkeys))
           /\ OneRecordPerGroup(result.solver, sitems, "faculty_clash",
                                ClashGroups(request, fkeys))
           /\ OneRecordPerGroup(result.solver, sitems, "room_clash",
                                ClashGroups(request, rkeys))

\* C26 for schedules whose groups have at most two entries
C26_PairsReportedOnce ==
    (program = "detector" /\ pc = "done" /\ Len(request) <= 2) =>
        LET fkeys == [i \in 1..Len(request) |->
                         <<request[i].faculty_id, request[i].day, request[i].start_time>>]
            uitems == [n \in 1..Len(result.unified) |-> result.unified[n].affected_items]
        IN OneRecordPerGroup(result.unified, uitems, "faculty_conflict",
                             ClashGroups(request, fkeys))

-----------------------------------------------------------------------------
(* The allocation success rate of a unified run *)

\* actual_allocations and total_possible_allocations of _calculate_metrics
UnifiedAllocationCounts(student_allocations, courses) ==
    <<SumFn([i \in 1..Len(student_allocations) |-> Cardinality(student_allocations[i])]),
      Len(student_allocations)
        * Cardinality({c \in 1..Len(courses) : courses[c].is_compulsory})>>

\* C27: the allocation success rate of a finished unified run is at most 100%.
C27_SuccessRateAtMostHundred ==
    (program = "unified" /\ pc = "done" /\ result # UnifiedFailure) =>
        CalculateMetrics([faculty |-> <<0, 0>>, rooms |-> <<0, 0>>,
                          allocation |-> UnifiedAllocationCounts(allocations,
                                                                 request.courses)]
                        ).allocation_success_rate <= 1000

\* C27 for requests whose courses are all compulsory
C27_CompulsoryOnly ==
    (program = "unified" /\ pc = "done" /\ result # UnifiedFailure
     /\ \A c \in 1..Len(request.courses) : request.courses[c].is_compulsory) =>
        UnifiedAllocationCounts(allocations, request.courses)[1]
            <= UnifiedAllocationCounts(allocations, request.courses)[2]

-----------------------------------------------------------------------------
(* Slot ids as keys *)

\* C28: over all working days, no two slots emitted by a grid builder have
\* the same slot id.
C28_SlotIdsDistinct ==
    ValidConfig(config) =>
        \A i, j \in 1..Len(slots) : i # j => slots[i].slot_id # slots[j].slot_id

\* C28 within one day
C28_DistinctWithinDay ==
    ValidConfig(config) =>
        \A i, j \in 1..Len(slots) :
            (i # j /\ slots[i].day = slots[j].day) => slots[i].slot_id # slots[j].slot_id

\* the first slots of Monday and of Tuesday carry the same id in a grid of
\* the unified generator
C28_SameIdOnTwoDays ==
    /\ builder = "unified" /\ ValidConfig(config) /\ grid_pc = "done"
    /\ \E i, j \in 1..Len(slots) :
          /\ slots[i].day = "Monday" /\ slots[j].day = "Tuesday"
          /\ slots[i].slot_id = slots[j].slot_id

-----------------------------------------------------------------------------
(* The shape of the genetic solver's population *)

\* a request with a required meeting, faculty, rooms, slots, a population and
\* at least one generation
GeneticWellFormed ==
    /\ program = "genetic"
    /\ GeneLayout(request.courses) # <<>>
    /\ request.faculty # <<>> /\ request.rooms # <<>> /\ request.time_slots # <<>>
    /\ request.population_size >= 1 /\ request.generations >= 1

\* an individual has one gene per required meeting, with the course of the
\* meeting at each position
FollowsLayout(individual, layout) ==
    /\ Len(individual) = Len(layout)
    /\ \A k \in 1..Len(layout) : individual[k].course_id = layout[k]

\* every generation starts from population_size individuals of the layout
C29_PopulationShape ==
    (GeneticWellFormed /\ pc = "evolve") =>
        /\ Len(loop.population) = request.population_size
        /\ \A i \in 1..Len(loop.population) :
              FollowsLayout(loop.population[i], GeneLayout(request.courses))

\* C29: for such a request every generation starts from population_size
\* individuals of the layout, breeding preserves this for every individual
\* length of 1 or more, and the returned schedule has exactly one entry per
\* required meeting.
C29_OneEntryPerMeeting ==
    /\ C29_PopulationShape
    /\ (GeneticWellFormed /\ pc = "done") =>
          /\ result.success
          /\ Len(result.timetable_slots) = Len(GeneLayout(request.courses))
          /\ \A k \in 1..Len(result.timetable_slots) :
                result.timetable_slots[k].course_id = GeneLayout(request.courses)[k]

\* C29 for individuals of two or more genes
C29_LongerIndividuals ==
    (GeneticWellFormed /\ pc = "done" /\ Len(GeneLayout(request.courses)) >= 2) =>
        /\ result.success
        /\ Len(result.timetable_slots) = Len(GeneLayout(request.courses))

-----------------------------------------------------------------------------
(* The life of an asynchronous job *)

StatusMoves ==
    {<<"pending", "running">>, <<"running", "completed">>, <<"running", "failed">>}

\* a stored job's status only moves pending -> running -> completed or failed
C30_StatusMoves ==
    [][program = "jobs" =>
         \A job_id \in DOMAIN optimization_jobs \cap DOMAIN loop'.optimization_jobs :
            LET before == optimization_jobs[job_id].status
                after == loop'.optimization_jobs[job_id].status
            IN before = after \/ <<before, after>> \in StatusMoves]_vars

\* C30: under every interleaving of submission, deletion and the background
\* task a job's status only moves pending -> running -> completed or failed,
\* and the background task never ends with an unhandled error, also when the
\* job was deleted after submission and before the task ran.
C30_TaskNeverRaises ==
    [][program = "jobs" =>
         /\ \A job_id \in DOMAIN optimization_jobs \cap DOMAIN loop'.optimization_jobs :
               LET before == optimization_jobs[job_id].status
                   after == loop'.optimization_jobs[job_id].status
               IN before = after \/ <<before, after>> \in StatusMoves
         /\ \A job_id \in DOMAIN loop'.ended : loop'.ended[job_id] = "returned"]_vars

\* a task whose job was still stored when it began returns
C30_StoredJobReturns ==
    program = "jobs" =>
        \A job_id \in DOMAIN loop.ended :
            loop.ended[job_id] = "KeyError" => job_id \notin DOMAIN optimization_jobs

====
